---- MODULE Spec2Model ----
(***************************************************************************)
(* Model of the PGR checklist report generator (src/main.py):              *)
(*   - the Resource Locator   (_parse_gcs_url),                            *)
(*   - the Image Fetcher      (_download_single_url and the three batch    *)
(*                             operations),                                *)
(*   - the Report Assembler / Layout Engine (generate_pdf).                *)
(* Each component has its own specification (SpecLocator, SpecFetch,       *)
(* SpecBatch, SpecReport); the variables of the components that a          *)
(* specification does not exercise stay at their idle values.              *)
(*                                                                         *)
(* Strings are modelled as sequences of tokens.  A token is a character or *)
(* an indivisible run of characters ("storage", "https"); the string is    *)
(* the concatenation of its tokens.                                        *)
(***************************************************************************)
EXTENDS Integers, Sequences, FiniteSets, TLC

\* Optional values: Python's None (the "absent" result of every fetch
\* operation) is the empty tuple, a present value x is <<x>>.
None == <<>>
Some(x) == <<x>>
Val(o) == o[1]

\* ------------------------------------------------------------------------
\* Generic string helpers (Python str methods on token sequences)
\* ------------------------------------------------------------------------

\* Index of the first occurrence of token c in s, Len(s)+1 when there is none.
RECURSIVE FindFrom(_, _, _)
FindFrom(s, c, i) ==
    IF i > Len(s) THEN Len(s) + 1
    ELSE IF s[i] = c THEN i
    ELSE FindFrom(s, c, i + 1)

Find(s, c) == FindFrom(s, c, 1)

\* s[i:] in Python's 0-based slicing is SubSeq(s, i+1, Len(s)).
Drop(s, n) == SubSeq(s, n + 1, Len(s))

\* str.lstrip('/')
RECURSIVE LStripSlash(_)
LStripSlash(s) ==
    IF s # <<>> /\ Head(s) = "/" THEN LStripSlash(Tail(s)) ELSE s

\* str.split('/', 1): one element when there is no '/', else [before, after].
Split1(s) ==
    LET i == Find(s, "/")
    IN  IF i > Len(s) THEN <<s>>
        ELSE <<SubSeq(s, 1, i - 1), Drop(s, i)>>

\* str.endswith(suffix)
EndsWith(s, suffix) ==
    /\ Len(suffix) <= Len(s)
    /\ SubSeq(s, Len(s) - Len(suffix) + 1, Len(s)) = suffix

\* ------------------------------------------------------------------------
\* urllib.parse: urlparse and unquote, as the code uses them
\* ------------------------------------------------------------------------
SchemeTokens == {"gs", "https", "http"}
HexDigits == {"0", "2"}

\* chr(int(a+b, 16)) for the hex digits of the model's alphabet.
HexChr(a, b) ==
    CASE a = "2" /\ b = "0" -> " "
      [] a = "2" /\ b = "2" -> "\""
      [] a = "0" /\ b = "0" -> "<NUL>"
      [] OTHER              -> "<STX>"

\* unquote(): every %XY with two hex digits becomes the character it encodes;
\* a '%' not followed by two hex digits stays as it is.
RECURSIVE Unquote(_)
Unquote(s) ==
    IF s = <<>> THEN <<>>
    ELSE IF Head(s) = "%" /\ Len(s) >= 3 /\ s[2] \in HexDigits /\ s[3] \in HexDigits
         THEN <<HexChr(s[2], s[3])>> \o Unquote(Drop(s, 3))
    ELSE <<Head(s)>> \o Unquote(Tail(s))

\* urlparse(url): scheme, netloc and path (the model's URLs carry no query or
\* fragment).  The scheme is what precedes the first ':' when it is a scheme
\* name; the netloc is what follows a leading '//' up to the next '/'.
UrlParse(u) ==
    LET hasScheme == Len(u) >= 2 /\ u[1] \in SchemeTokens /\ u[2] = ":"
        rest      == IF hasScheme THEN Drop(u, 2) ELSE u
        hasNetloc == Len(rest) >= 2 /\ rest[1] = "/" /\ rest[2] = "/"
        after     == IF hasNetloc THEN Drop(rest, 2) ELSE rest
        n         == IF hasNetloc THEN Find(after, "/") - 1 ELSE 0
    IN  [scheme |-> IF hasScheme THEN u[1] ELSE "",
         netloc |-> SubSeq(after, 1, n),
         path   |-> Drop(after, n)]

\* ParseResult.hostname: the netloc without userinfo, None when it is empty.
Hostname(u) ==
    LET nl == UrlParse(u).netloc
        at == Find(nl, "@")
        h  == IF at > Len(nl) THEN nl ELSE Drop(nl, at)
    IN  IF h = <<>> THEN None ELSE Some(h)

\* ------------------------------------------------------------------------
\* Resource Locator: PgrChecklistPDFGenerator._parse_gcs_url
\* ------------------------------------------------------------------------
GoogleApisHost == <<"storage", ".", "googleapis", ".", "com">>
CloudGoogleHost == <<"storage", ".", "cloud", ".", "google", ".", "com">>
VirtualSuffix == <<".">> \o GoogleApisHost

\* host.split('.storage.googleapis.com')[0] for a host that ends with it
\* (the suffix occurs once in the model's hosts).
BeforeVirtualSuffix(host) == SubSeq(host, 1, Len(host) - Len(VirtualSuffix))

\* The body of _parse_gcs_url after the feature-flag test.
ParseGcsUrl(u) ==
    LET parsed == UrlParse(u)
        host   == parsed.netloc
        path   == parsed.path
        parts  == Split1(LStripSlash(path))
    IN  IF parsed.scheme = "gs"
        THEN IF Len(parts) # 2 THEN None
             ELSE Some(<<parsed.netloc, Unquote(parts[2])>>)
        ELSE IF host = GoogleApisHost \/ host = CloudGoogleHost
        THEN IF Len(parts) # 2 THEN None
             ELSE Some(<<parts[1], Unquote(parts[2])>>)
        ELSE IF EndsWith(host, VirtualSuffix)
        THEN IF LStripSlash(path) = <<>> THEN None
             ELSE Some(<<BeforeVirtualSuffix(host), Unquote(LStripSlash(path))>>)
        ELSE None

\* Bounds of the locator's inputs.
MaxTail == 4
PathAlphabet == {"/", "o", "%", "2", "0"}
Buckets == {<<>>, <<"bkt">>}
UrlForms == {"gs", "flat", "flatcloud", "virtual", "other"}

RECURSIVE SeqsUpTo(_, _)
SeqsUpTo(S, n) ==
    IF n = 0 THEN {<<>>}
    ELSE LET shorter == SeqsUpTo(S, n - 1)
         IN  shorter \cup {Append(s, c) : s \in {t \in shorter : Len(t) = n - 1}, c \in S}

\* The URL text of a storage reference: form, bucket text and the text that
\* follows the bucket (for a well-formed URL, "/" followed by the object).
BuildUrl(form, b, tail) ==
    CASE form = "gs"        -> <<"gs", ":", "/", "/">> \o b \o tail
      [] form = "flat"      -> <<"https", ":", "/", "/">> \o GoogleApisHost \o <<"/">> \o b \o tail
      [] form = "flatcloud" -> <<"https", ":", "/", "/">> \o CloudGoogleHost \o <<"/">> \o b \o tail
      [] form = "virtual"   -> <<"https", ":", "/", "/">> \o b \o VirtualSuffix \o tail
      [] OTHER              -> <<"https", ":", "/", "/", "example", ".", "org", "/">> \o b \o tail

VARIABLES
    lpc,                        \* locator: "call" | "done"
    use_gcs_for_storage_urls,   \* self.use_gcs_for_storage_urls (feature flag)
    urlForm, urlBucket, urlTail,\* the parts the caller built the URL from
    url,                        \* the argument of _parse_gcs_url
    gcs_info                    \* its return value: None or Some(<<bucket, object>>)

locatorVars == <<lpc, use_gcs_for_storage_urls, urlForm, urlBucket, urlTail, url, gcs_info>>

InitLocator ==
    /\ lpc = "call"
    /\ use_gcs_for_storage_urls \in BOOLEAN
    /\ urlForm \in UrlForms
    /\ urlBucket \in Buckets
    /\ urlTail \in SeqsUpTo(PathAlphabet, MaxTail)
    /\ url = BuildUrl(urlForm, urlBucket, urlTail)
    /\ gcs_info = None

IdleLocator ==
    /\ lpc = "idle"
    /\ use_gcs_for_storage_urls = TRUE
    /\ urlForm = "gs"
    /\ urlBucket = <<>>
    /\ urlTail = <<>>
    /\ url = <<>>
    /\ gcs_info = None

\* _parse_gcs_url with the flag disabled: returns None at once.
ParseDisabled ==
    /\ lpc = "call"
    /\ ~use_gcs_for_storage_urls
    /\ gcs_info' = None
    /\ lpc' = "done"
    /\ UNCHANGED <<use_gcs_for_storage_urls, urlForm, urlBucket, urlTail, url>>

\* _parse_gcs_url with the flag enabled.
ParseEnabled ==
    /\ lpc = "call"
    /\ use_gcs_for_storage_urls
    /\ gcs_info' = ParseGcsUrl(url)
    /\ lpc' = "done"
    /\ UNCHANGED <<use_gcs_for_storage_urls, urlForm, urlBucket, urlTail, url>>

\* ------------------------------------------------------------------------
\* Image Fetcher: PgrChecklistPDFGenerator._download_single_url
\* ------------------------------------------------------------------------

\* self.max_image_bytes (MAX_IMAGE_BYTES, 10 MiB by default), scaled to the
\* model's chunk sizes.
max_image_bytes == 3

\* self.allowed_image_hosts (the default of ALLOWED_IMAGE_HOSTS).
allowed_image_hosts == {GoogleApisHost, CloudGoogleHost}

\* parsed.hostname == h or parsed.hostname.endswith('.' + h) for some allowed h
HostMatches(hostname) ==
    \E h \in allowed_image_hosts :
        hostname = h \/ EndsWith(hostname, <<".">> \o h)

\* The guard of the early return: a hostname is present and matches no
\* allowed host.
HostRefused(u) ==
    Hostname(u) # None /\ ~HostMatches(Val(Hostname(u)))

\* total > self.max_image_bytes
OverCapLate(total) == total > max_image_bytes + 1

OverCap(total) == total > max_image_bytes

\* Bounds of the fetcher's inputs: the streamed body is a sequence of at most
\* MaxChunks chunks of at most MaxChunkLen bytes each (a chunk may be empty).
MaxChunks == 3
MaxChunkLen == 2

RECURSIVE SumSeq(_)
SumSeq(s) == IF s = <<>> THEN 0 ELSE Head(s) + SumSeq(Tail(s))

\* The bytes n+1 .. n+k of the body; a byte is named by its offset.
BytesFrom(n, k) == [i \in 1..k |-> n + i]

HttpsPrefix == <<"https", ":", "/", "/">>

\* URLs handed to the downloader: allowed hosts, a subdomain of one, a host
\* that merely ends with an allowed name, a foreign host, an allowed name used
\* as userinfo of a foreign host, and URLs without a hostname.
DownloadUrls ==
    { HttpsPrefix \o GoogleApisHost \o <<"/", "o">>,
      HttpsPrefix \o CloudGoogleHost \o <<"/", "o">>,
      HttpsPrefix \o <<"bkt", ".">> \o GoogleApisHost \o <<"/", "o">>,
      HttpsPrefix \o <<"evil">> \o GoogleApisHost \o <<"/", "o">>,
      HttpsPrefix \o <<"example", ".", "org", "/", "o">>,
      HttpsPrefix \o GoogleApisHost \o <<"@", "example", ".", "org", "/", "o">>,
      <<"http", ":", "/", "/", "/", "o">>,
      <<"http", ":", "/", "example", ".", "org", "/", "o">> }

VARIABLES
    fpc,          \* "call" | "stream" | "validate" | "done"
    dl_url,       \* the url argument
    body_chunks,  \* what r.iter_content yields: the size of each chunk
    next_chunk,   \* how many chunks the loop has consumed
    total,        \* total
    buf,          \* buf (the bytes written so far)
    requested,    \* requests.get has been called for dl_url
    dl_result     \* the return value: None or Some(bytes)

fetchVars == <<fpc, dl_url, body_chunks, next_chunk, total, buf, requested, dl_result>>

Body == BytesFrom(0, SumSeq(body_chunks))

InitFetch ==
    /\ fpc = "call"
    /\ dl_url \in DownloadUrls
    /\ body_chunks \in SeqsUpTo(0..MaxChunkLen, MaxChunks)
    /\ next_chunk = 0
    /\ total = 0
    /\ buf = <<>>
    /\ requested = FALSE
    /\ dl_result = None

IdleFetch ==
    /\ fpc = "idle"
    /\ dl_url = <<>>
    /\ body_chunks = <<>>
    /\ next_chunk = 0
    /\ total = 0
    /\ buf = <<>>
    /\ requested = FALSE
    /\ dl_result = None

\* The hostname is present and not allowed: return None before any request.
HostNotAllowed ==
    /\ fpc = "call"
    /\ HostRefused(dl_url)
    /\ dl_result' = None
    /\ fpc' = "done"
    /\ UNCHANGED <<dl_url, body_chunks, next_chunk, total, buf, requested>>

\* requests.get(url, stream=True, timeout=20) and r.raise_for_status() succeed.
RequestsGet ==
    /\ fpc = "call"
    /\ ~HostRefused(dl_url)
    /\ requested' = TRUE
    /\ fpc' = "stream"
    /\ UNCHANGED <<dl_url, body_chunks, next_chunk, total, buf, dl_result>>

\* requests.get or raise_for_status raises: caught by the outer except.
RequestsGetRaises ==
    /\ fpc = "call"
    /\ ~HostRefused(dl_url)
    /\ requested' = TRUE
    /\ dl_result' = None
    /\ fpc' = "done"
    /\ UNCHANGED <<dl_url, body_chunks, next_chunk, total, buf>>

\* One iteration of "for chunk in r.iter_content(...)".
ReadChunk ==
    /\ fpc = "stream"
    /\ next_chunk < Len(body_chunks)
    /\ LET n == body_chunks[next_chunk + 1]
       IN  /\ next_chunk' = next_chunk + 1
           /\ IF n = 0
              THEN UNCHANGED <<total, buf, dl_result, fpc>>
              ELSE /\ total' = total + n
                   /\ IF OverCap(total')
                      THEN /\ dl_result' = None
                           /\ fpc' = "done"
                           /\ UNCHANGED buf
                      ELSE /\ buf' = buf \o BytesFrom(total, n)
                           /\ UNCHANGED <<dl_result, fpc>>
    /\ UNCHANGED <<dl_url, body_chunks, requested>>

\* The connection fails or times out while streaming: caught, None.
StreamRaises ==
    /\ fpc = "stream"
    /\ next_chunk < Len(body_chunks)
    /\ dl_result' = None
    /\ fpc' = "done"
    /\ UNCHANGED <<dl_url, body_chunks, next_chunk, total, buf, requested>>

\* The iterator is exhausted: data = buf.getvalue().
StreamEnd ==
    /\ fpc = "stream"
    /\ next_chunk = Len(body_chunks)
    /\ fpc' = "validate"
    /\ UNCHANGED <<dl_url, body_chunks, next_chunk, total, buf, requested, dl_result>>

\* Image.open(data) succeeds: return data.
ValidateOk ==
    /\ fpc = "validate"
    /\ buf # <<>>
    /\ dl_result' = Some(buf)
    /\ fpc' = "done"
    /\ UNCHANGED <<dl_url, body_chunks, next_chunk, total, buf, requested>>

\* Image.open(data) raises (always so for an empty body): return None.
ValidateFails ==
    /\ fpc = "validate"
    /\ dl_result' = None
    /\ fpc' = "done"
    /\ UNCHANGED <<dl_url, body_chunks, next_chunk, total, buf, requested>>

\* ------------------------------------------------------------------------
\* Image Fetcher: download_images_batch, download_gcs_targets_batch and
\* download_urls_batch
\* ------------------------------------------------------------------------

\* batch_size in download_images_batch (100 in the source), scaled so that
\* an input of MaxBatch entries spans more than one chunk.
batch_size == 2

\* Bound on the number of entries of a batch call.
MaxBatch == 3

\* Inputs: object paths of the default bucket, (bucket, object) targets, URLs.
ImagePaths == {"a.jpg", "b.jpg"}
GcsTargets == {<<"b1", "x">>, <<"b1", "y">>, <<"b2", "x">>}
ImageUrls == {"u1", "u2"}

\* What the store or the server holds for an input: its bytes, which differ
\* from one input to another.
BytesOf(key) == <<"bytes", key>>

\* [None] * n
AllNone(n) == [i \in 1..n |-> None]

Min(a, b) == IF a <= b THEN a ELSE b

\* len(chunk_paths) for image_paths[chunk_start:chunk_start + batch_size]
ChunkLen(paths, chunk_start) == Min(batch_size, Len(paths) - chunk_start)

\* global_idx = chunk_start + i (as a 1-based index of results: + 1)
GlobalIdxLocal(chunk_start, i) == i + 1

GlobalIdx(chunk_start, i) == chunk_start + i + 1

\* The keys of by_bucket in insertion order: each bucket at its first
\* appearance in targets.
RECURSIVE BucketsInOrder(_, _)
BucketsInOrder(targets, seen) ==
    IF targets = <<>> THEN <<>>
    ELSE LET b == Head(targets)[1]
         IN  IF b \in seen THEN BucketsInOrder(Tail(targets), seen)
             ELSE <<b>> \o BucketsInOrder(Tail(targets), seen \cup {b})

\* by_bucket[b]: the indices of the targets of bucket b, ascending.
RECURSIVE IndicesOf(_, _, _)
IndicesOf(targets, b, i) ==
    IF i > Len(targets) THEN <<>>
    ELSE (IF targets[i][1] = b THEN <<i>> ELSE <<>>) \o IndicesOf(targets, b, i + 1)

\* The order in which the two nested loops over by_bucket visit the targets.
RECURSIVE VisitOrder(_, _)
VisitOrder(targets, bs) ==
    IF bs = <<>> THEN <<>>
    ELSE IndicesOf(targets, Head(bs), 1) \o VisitOrder(targets, Tail(bs))

GcsOrder(targets) == VisitOrder(targets, BucketsInOrder(targets, {}))

VARIABLES
    bpc,          \* position in the batch call; "done" once it has returned
    bop,          \* which batch operation: "images" | "gcs" | "urls"
    inputs,       \* image_paths / targets / image_urls
    results,      \* results
    chunk_start,  \* chunk_start (download_images_batch)
    bi,           \* entries handled in the current loop (i; position in the
                  \* by_bucket order; futures collected)
    futures,      \* download_urls_batch: each submitted task's future
    completed,    \* the tasks in the order they finished
    fetched,      \* per entry: what its own fetch came to ("pending",
                  \* "ok", "failed")
    batch_ret     \* the value the batch call returned

batchVars == <<bpc, bop, inputs, results, chunk_start, bi, futures, completed, fetched, batch_ret>>

BatchInputs(op) ==
    CASE op = "images" -> SeqsUpTo(ImagePaths, MaxBatch)
      [] op = "gcs"    -> SeqsUpTo(GcsTargets, MaxBatch)
      [] OTHER         -> SeqsUpTo(ImageUrls, MaxBatch)

\* The state on entry, results already allocated as [None] * len(inputs).
InitBatch ==
    /\ bop \in {"images", "gcs", "urls"}
    /\ inputs \in BatchInputs(bop)
    /\ bpc = "start"
    /\ results = AllNone(Len(inputs))
    /\ chunk_start = 0
    /\ bi = 0
    /\ futures = <<>>
    /\ completed = <<>>
    /\ fetched = [i \in 1..Len(inputs) |-> "pending"]
    /\ batch_ret = <<>>

IdleBatch ==
    /\ bop = "idle"
    /\ inputs = <<>>
    /\ bpc = "idle"
    /\ results = <<>>
    /\ chunk_start = 0
    /\ bi = 0
    /\ futures = <<>>
    /\ completed = <<>>
    /\ fetched = <<>>
    /\ batch_ret = <<>>

Outcomes == {"ok", "missing", "download_raises"}

\* What an entry's slot receives for an outcome of its own fetch.
SlotFor(key, outcome) == IF outcome = "ok" THEN Some(BytesOf(key)) ELSE None

Mark(outcome) == IF outcome = "ok" THEN "ok" ELSE "failed"

\* ---- download_images_batch

\* One iteration of the inner loop: blob.exists() answers, then the download
\* succeeds or raises (caught per entry), or the blob is missing.
ImagesEntry ==
    /\ bop = "images" /\ bpc = "start"
    /\ chunk_start < Len(inputs)
    /\ bi < ChunkLen(inputs, chunk_start)
    /\ \E outcome \in Outcomes :
          LET idx == GlobalIdx(chunk_start, bi)
              key == inputs[chunk_start + bi + 1]
          IN  /\ results' = [results EXCEPT ![idx] = SlotFor(key, outcome)]
              /\ fetched' = [fetched EXCEPT ![chunk_start + bi + 1] = Mark(outcome)]
    /\ bi' = bi + 1
    /\ UNCHANGED <<bpc, bop, inputs, chunk_start, futures, completed, batch_ret>>

\* blob.exists() raises: nothing inside the loop catches it, the outer
\* except returns [None] * len(image_paths).
ImagesExistsRaises ==
    /\ bop = "images" /\ bpc = "start"
    /\ chunk_start < Len(inputs)
    /\ bi < ChunkLen(inputs, chunk_start)
    /\ fetched' = [fetched EXCEPT ![chunk_start + bi + 1] = "failed"]
    /\ batch_ret' = AllNone(Len(inputs))
    /\ bpc' = "done"
    /\ UNCHANGED <<bop, inputs, results, chunk_start, bi, futures, completed>>

\* The chunk's blobs are all handled, "with batch:" exits, next chunk.
ImagesNextChunk ==
    /\ bop = "images" /\ bpc = "start"
    /\ chunk_start < Len(inputs)
    /\ bi = ChunkLen(inputs, chunk_start)
    /\ chunk_start' = chunk_start + batch_size
    /\ bi' = 0
    /\ UNCHANGED <<bpc, bop, inputs, results, futures, completed, fetched, batch_ret>>

\* return results
ImagesReturn ==
    /\ bop = "images" /\ bpc = "start"
    /\ chunk_start >= Len(inputs)
    /\ batch_ret' = results
    /\ bpc' = "done"
    /\ UNCHANGED <<bop, inputs, results, chunk_start, bi, futures, completed, fetched>>

\* ---- download_gcs_targets_batch

\* One iteration of the inner loop, in by_bucket order; exists() and the
\* download are both inside the entry's try.
GcsEntry ==
    /\ bop = "gcs" /\ bpc = "start"
    /\ bi < Len(inputs)
    /\ \E outcome \in Outcomes \cup {"exists_raises"} :
          LET idx == GcsOrder(inputs)[bi + 1]
          IN  /\ results' = [results EXCEPT ![idx] = SlotFor(inputs[idx], outcome)]
              /\ fetched' = [fetched EXCEPT ![idx] = Mark(outcome)]
    /\ bi' = bi + 1
    /\ UNCHANGED <<bpc, bop, inputs, chunk_start, futures, completed, batch_ret>>

\* return results (at once for an empty targets list)
GcsReturn ==
    /\ bop = "gcs" /\ bpc = "start"
    /\ bi = Len(inputs)
    /\ batch_ret' = results
    /\ bpc' = "done"
    /\ UNCHANGED <<bop, inputs, results, chunk_start, bi, futures, completed, fetched>>

\* ---- download_urls_batch

\* if not image_urls: return results
UrlsEmpty ==
    /\ bop = "urls" /\ bpc = "start"
    /\ inputs = <<>>
    /\ batch_ret' = results
    /\ bpc' = "done"
    /\ UNCHANGED <<bop, inputs, results, chunk_start, bi, futures, completed, fetched>>

\* executor.submit(self._download_single_url, url) for every url.
UrlsSubmit ==
    /\ bop = "urls" /\ bpc = "start"
    /\ inputs # <<>>
    /\ futures' = [i \in 1..Len(inputs) |-> <<"running">>]
    /\ bpc' = "collect"
    /\ UNCHANGED <<bop, inputs, results, chunk_start, bi, completed, fetched, batch_ret>>

\* A worker thread finishes task i, in any order: _download_single_url
\* returned the bytes or None, or the task raised.
TaskCompletes(i) ==
    /\ bop = "urls" /\ bpc = "collect"
    /\ futures[i] = <<"running">>
    /\ \E outcome \in {"ok", "none", "raised"} :
          /\ futures' = [futures EXCEPT ![i] =
                IF outcome = "raised" THEN <<"raised">>
                ELSE <<"returned", SlotFor(inputs[i], outcome)>>]
          /\ fetched' = [fetched EXCEPT ![i] = Mark(outcome)]
    /\ completed' = Append(completed, i)
    /\ UNCHANGED <<bpc, bop, inputs, results, chunk_start, bi, batch_ret>>

\* One iteration of "for future in future_to_idx" (submission order):
\* future.result() blocks until the task has finished.
UrlsCollect ==
    /\ bop = "urls" /\ bpc = "collect"
    /\ bi < Len(inputs)
    /\ futures[bi + 1] # <<"running">>
    /\ LET idx == bi + 1
           f   == futures[bi + 1]
       IN  results' = [results EXCEPT ![idx] =
                          IF f[1] = "raised" THEN None ELSE f[2]]
    /\ bi' = bi + 1
    /\ UNCHANGED <<bpc, bop, inputs, chunk_start, futures, completed, fetched, batch_ret>>

\* The executor's with-block exits, return results.
UrlsReturn ==
    /\ bop = "urls" /\ bpc = "collect"
    /\ bi = Len(inputs)
    /\ batch_ret' = results
    /\ bpc' = "done"
    /\ UNCHANGED <<bop, inputs, results, chunk_start, bi, futures, completed, fetched>>

\* ------------------------------------------------------------------------
\* Report Assembler and Layout Engine: PgrChecklistPDFGenerator.generate_pdf
\* ------------------------------------------------------------------------

\* JSON values as Python sees them, tagged with their type.
PyNull == <<"null">>
PyInt(n) == <<"int", n>>
PyBool(b) == <<"bool", b>>
PyStr(s) == <<"str", s>>

\* v == 1 and v == 0 in Python: True == 1 and False == 0 hold as well.
PyEq1(v) == (v[1] = "int" /\ v[2] = 1) \/ (v[1] = "bool" /\ v[2] = TRUE)
PyEq0(v) == (v[1] = "int" /\ v[2] = 0) \/ (v[1] = "bool" /\ v[2] = FALSE)

\* str.strip() and str.lower() on the tokens of the model's status strings.
RECURSIVE RStripBlank(_)
RStripBlank(s) ==
    IF s # <<>> /\ s[Len(s)] = " " THEN RStripBlank(SubSeq(s, 1, Len(s) - 1)) ELSE s

RECURSIVE LStripBlank(_)
LStripBlank(s) ==
    IF s # <<>> /\ Head(s) = " " THEN LStripBlank(Tail(s)) ELSE s

Strip(s) == RStripBlank(LStripBlank(s))

LowerToken(t) ==
    CASE t = "OK" -> "ok"
      [] t = "Conforme" -> "conforme"
      [] OTHER -> t

Lower(s) == [i \in 1..Len(s) |-> LowerToken(s[i])]

Affirmative == {<<"ok">>, <<"conforme">>, <<"aprovado">>, <<"positivo">>}

\* to_conforme(v): an int (a bool is one) passes through, a string maps to 1
\* when it is one of the affirmative words and to 0 otherwise, the rest to 0.
to_conforme(v) ==
    IF v[1] \in {"int", "bool"} THEN v
    ELSE IF v[1] = "str"
         THEN (IF Lower(Strip(v[2])) \in Affirmative THEN PyInt(1) ELSE PyInt(0))
    ELSE PyInt(0)

\* The normalisation loop on one item.  An item is a record of the optional
\* keys 'conforme' and 'situation' (None: the key is missing), the list
\* 'imagens' (of each image its annotations), the texts of the title and
\* problem lines, and the tags: 'conforme' is derived from 'situation' only
\* when it is missing and 'situation' is present.
NormaliseAlways(it) ==
    IF it.situation # None
    THEN [it EXCEPT !.conforme = Some(to_conforme(Val(it.situation)))]
    ELSE it

Normalise(it) ==
    IF it.conforme = None /\ it.situation # None
    THEN [it EXCEPT !.conforme = Some(to_conforme(Val(it.situation)))]
    ELSE it

\* item.get('conforme') == 1 (ok_items), item.get('conforme') == 0 (nok_items)
IsOkWhenZero(it) == it.conforme # None /\ PyEq0(Val(it.conforme))

IsOk(it) == it.conforme # None /\ PyEq1(Val(it.conforme))

IsNok(it) == it.conforme # None /\ PyEq0(Val(it.conforme))

\* sum(len(item.get('imagens', [])) for item in its)
RECURSIVE SumImagens(_)
SumImagens(its) ==
    IF its = <<>> THEN 0 ELSE Len(Head(its).imagens) + SumImagens(Tail(its))

\* ---- page geometry (millimetres)
page_w == 210
page_h == 297
l_margin == 10
r_margin == 10
t_margin == 10
b_margin == 15
c_margin == 1
page_break_trigger == page_h - b_margin
img_width == 55
img_height == 35
img_margin == 5
line_height == 6
badge_h == 5
pad_x == 3

\* String widths at font size 10, rounded to millimetres.
SpaceW == 3
StatusLabelW == 12
ConformeW == 15
NaoConformeW == 23

\* A text is a sequence of lines (split on "\n"), a line a sequence of words
\* (split on " "), a word its width at font size 10; an empty word has
\* width 0.  pdf.get_string_width of the text at font size pt:
WidthAt(w, pt) == (w * pt) \div 10

\* The inner loop of _get_text_line_count over the words of one line:
\* cur is the width of current_line (0: empty), count line_count_for_segment.
RECURSIVE WordLoop(_, _, _, _, _)
WordLoop(words, cur, count, width, pt) ==
    IF words = <<>> THEN count
    ELSE LET w    == WidthAt(Head(words), pt)
             test == IF cur > 0 THEN cur + WidthAt(SpaceW, pt) + w ELSE w
         IN  IF w > width
             THEN WordLoop(Tail(words), 0, IF cur > 0 THEN count + 1 ELSE count, width, pt)
             ELSE IF test <= width
             THEN WordLoop(Tail(words), test, count, width, pt)
             ELSE WordLoop(Tail(words), w, count + 1, width, pt)

RECURSIVE LineLoop(_, _, _)
LineLoop(lines, width, pt) ==
    IF lines = <<>> THEN 0
    ELSE (IF Head(lines) = <<>> THEN 1 ELSE WordLoop(Head(lines), 0, 1, width, pt))
         + LineLoop(Tail(lines), width, pt)

\* _get_text_line_count(pdf, text, width) with the font at size pt.
GetTextLineCount(text, width, pt) ==
    IF text = <<>> THEN 1 ELSE LineLoop(text, width, pt)

\* The number of lines pdf.multi_cell(w, h, text) draws at font size pt: a
\* greedy word wrap within w less the cell margin on both sides (the model's
\* texts hold no word wider than that).
MultiCellLines(text, w, pt) ==
    IF text = <<>> THEN 1 ELSE LineLoop(text, w - 2 * c_margin, pt)

\* Where a cell of height h is drawn: on a fresh page when it would pass the
\* page-break trigger (auto page break).  <<y, page>>.
CellAt(y, page, h) ==
    IF y + h > page_break_trigger THEN <<t_margin, page + 1>> ELSE <<y, page>>

\* pdf.multi_cell drawing n lines of height h from <<y, page>>: the cursor
\* after the last line.
RECURSIVE MultiCell(_, _, _, _)
MultiCell(y, page, n, h) ==
    IF n = 0 THEN <<y, page>>
    ELSE LET at == CellAt(y, page, h)
         IN  MultiCell(at[1] + h, at[2], n - 1, h)

\* block_height of an item: text lines, image rows, fixed padding.
ImageRowsMod(nimg) == (nimg + 2) % 3

ImageRows(nimg) == (nimg + 2) \div 3

BlockHeight(title, problem, nimg) ==
    LET available_width == page_w - l_margin - r_margin
        lines_item == GetTextLineCount(title, available_width, 10)
        lines_prob == GetTextLineCount(problem, available_width, 10)
        text_height == (lines_item + lines_prob + 1) * 5
        images_height == ImageRows(nimg) * (img_height + img_margin)
    IN  text_height + images_height + 15

\* The loop over the tags of an item: tags are label widths at font size 8
\* (0: an empty label, skipped).  <<x, y, page>> after the last badge.
\* if x + bw > right_edge, with bw = tw + pad * 2
TagWrapsNoPad(x, tw) == x + tw > page_w - r_margin

TagWraps(x, tw) == x + (tw + 2 * 2) > page_w - r_margin

RECURSIVE TagLoop(_, _, _, _)
TagLoop(tags, x, y, page) ==
    IF tags = <<>> THEN <<x, y, page>>
    ELSE LET tw == Head(tags)
             bw == tw + 2 * 2
             wrap == TagWraps(x, tw)
             bx == IF wrap THEN l_margin ELSE x
             by == IF wrap THEN y + badge_h ELSE y
             at == CellAt(by, page, badge_h)
         IN  IF tw = 0 THEN TagLoop(Tail(tags), x, y, page)
             ELSE TagLoop(Tail(tags), bx + bw + 2, at[1], at[2])

\* The caption of an image: one line "- <description>" per annotation with a
\* non-empty description.
RECURSIVE Caption(_)
Caption(anns) ==
    IF anns = <<>> THEN <<>>
    ELSE (IF Head(anns)[1] = "str" /\ Head(anns)[2] # <<>>
          THEN <<(<<2>> \o Head(anns)[2])>> ELSE <<>>) \o Caption(Tail(anns))

\* (ann.get('description') or '').strip() raises for a description that is
\* neither a string nor falsy.
CaptionRaisesFor(anns) == \E i \in 1..Len(anns) : anns[i][1] = "bad"

\* ---- inputs
MaxItems == 2
MaxImages == 1
MaxLayoutImages == 2
MaxDescLines == 30

ConformityInputs ==
    { [conforme |-> Some(PyInt(1)), situation |-> None],
      [conforme |-> Some(PyInt(0)), situation |-> None],
      [conforme |-> None,           situation |-> None],
      [conforme |-> None,           situation |-> Some(PyStr(<<" ", "OK", " ">>))],
      [conforme |-> None,           situation |-> Some(PyStr(<<"nok">>))],
      [conforme |-> None,           situation |-> Some(PyInt(2))],
      [conforme |-> None,           situation |-> Some(PyBool(TRUE))],
      [conforme |-> Some(PyInt(1)), situation |-> Some(PyStr(<<"nok">>))] }

\* "Item: <rotulo>" and "Problema(s): <problema>": one and two lines.
TitleTexts == { <<<<9, 60>>>>, <<<<9, 100, 100>>>> }
ProblemTexts == { <<<<22, 30>>>>, <<<<22, 120, 120>>>> }

\* Tag lists: none, badges that fit, badges that each need a row of their own.
TagLists == { <<>>, <<0, 40>>, <<150, 150>>, <<150, 150, 150>> }

\* Annotation lists of an image, by description: none; a one-line caption;
\* two descriptions of two caption lines each; a description that is no string.
NoAnnotations == <<>>

BadDescription == << <<"bad">> >>

AnnotationLists ==
    { NoAnnotations,
      << <<"str", <<30>>>> >>,
      << <<"str", <<40, 40>>>>, <<"none">>, <<"str", <<40, 40>>>> >>,
      BadDescription }

ItemInputs(conf, imagelists, titles, problems, taglists) ==
    { [conforme |-> c.conforme, situation |-> c.situation, imagens |-> m,
       title |-> t, problem |-> p, tags |-> g] :
          c \in conf, m \in imagelists, t \in titles, p \in problems, g \in taglists }

SeqsFromTo(S, lo, hi) == {q \in SeqsUpTo(S, hi) : Len(q) >= lo}

VARIABLES
    rpc,              \* position in generate_pdf
    desc_lines,       \* lines of the taller of the two header boxes
    items,            \* original['itens']
    perguntas_ok,     \* complemento_checklist['perguntas']['ok']
    perguntas_nok,    \* complemento_checklist['perguntas']['nok']
    fotos_ok,         \* complemento_checklist['totalFotos']['ok']
    fotos_nok,        \* complemento_checklist['totalFotos']['nok']
    item_i,           \* items already drawn
    cur_x, cur_y,     \* pdf.get_x(), pdf.get_y()
    page,             \* pdf.page
    item_page,        \* the page the current item's title started on
    problema_line,    \* problema_line of the current item
    img_i,            \* images of the current item already fetched
    processed,        \* processed_images_with_captions (the captions)
    place_i,          \* entries of processed already handled
    col_count,        \* col_count
    row_max_height,   \* row_max_height
    grid,             \* the images placed for the current item, in the order of placing
    fetched_ok        \* per item, the images whose fetch succeeded

reportVars == <<rpc, desc_lines, items, perguntas_ok, perguntas_nok, fotos_ok, fotos_nok,
                item_i, cur_x, cur_y, page, item_page, problema_line, img_i, processed,
                place_i, col_count, row_max_height, grid, fetched_ok>>

layoutVars == <<item_i, cur_x, cur_y, page, item_page, problema_line, img_i, processed,
                place_i, col_count, row_max_height, grid, fetched_ok>>

summaryVars == <<perguntas_ok, perguntas_nok, fotos_ok, fotos_nok>>

InitReportWith(itemSeqs, descLines) ==
    /\ rpc = "start"
    /\ desc_lines \in descLines
    /\ items \in itemSeqs
    /\ perguntas_ok = 0 /\ perguntas_nok = 0 /\ fotos_ok = 0 /\ fotos_nok = 0
    /\ item_i = 0
    /\ cur_x = 0 /\ cur_y = 0
    /\ page = 0
    /\ item_page = 0
    /\ problema_line = <<>>
    /\ img_i = 0
    /\ processed = <<>>
    /\ place_i = 0
    /\ col_count = 0
    /\ row_max_height = 0
    /\ grid = <<>>
    /\ fetched_ok = [i \in 1..Len(items) |-> 0]

\* Reports of up to MaxItems items with short texts under a short header:
\* items of every conformity input with up to MaxImages images without
\* annotations, and a conforming item whose image carries a description that
\* is no string.
InitReport ==
    InitReportWith(
        SeqsFromTo(ItemInputs(ConformityInputs, SeqsUpTo({NoAnnotations}, MaxImages),
                              {<<<<9, 60>>>>}, {<<<<22, 30>>>>}, {<<0, 40>>})
                   \cup ItemInputs({[conforme |-> Some(PyInt(1)), situation |-> None]},
                                   {<<BadDescription>>},
                                   {<<<<9, 60>>>>}, {<<<<22, 30>>>>}, {<<0, 40>>}),
                   1, MaxItems),
        {2})

\* Reports of one item with an explicit conformity, texts and tag lists of
\* every kind and up to MaxLayoutImages images with annotations of every
\* kind, below headers of every height.
InitLayout ==
    InitReportWith(
        SeqsFromTo(ItemInputs({c \in ConformityInputs : c.situation = None /\ c.conforme # None},
                              SeqsUpTo(AnnotationLists, MaxLayoutImages),
                              TitleTexts, ProblemTexts, TagLists), 1, 1),
        2..MaxDescLines)

\* Bound of the image grid: items of four (a row and one more) up to
\* MaxGridImages images.
MaxGridImages == 5

\* Images without caption, with a caption of two words that share a line at
\* font size 8 but not at size 10, and with a caption of four lines.
GridAnnotationLists ==
    { NoAnnotations,
      << <<"str", <<25, 25>>>> >>,
      << <<"str", <<40, 40>>>>, <<"none">>, <<"str", <<40, 40>>>> >> }

\* Reports of one conforming item with short texts, no tags and four to
\* MaxGridImages images, each with or without a caption, under a short
\* header; and the item whose image carries a description that is no string.
InitGrid ==
    InitReportWith(
        SeqsFromTo(ItemInputs({[conforme |-> Some(PyInt(1)), situation |-> None]},
                              SeqsFromTo(GridAnnotationLists, 4, MaxGridImages)
                                  \cup {<<BadDescription>>},
                              {<<<<9, 60>>>>}, {<<<<22, 30>>>>}, {<<>>}), 1, 1),
        {2})

IdleReport ==
    /\ rpc = "idle"
    /\ desc_lines = 2
    /\ items = <<>>
    /\ perguntas_ok = 0 /\ perguntas_nok = 0 /\ fotos_ok = 0 /\ fotos_nok = 0
    /\ item_i = 0
    /\ cur_x = 0 /\ cur_y = 0
    /\ page = 0
    /\ item_page = 0
    /\ problema_line = <<>>
    /\ img_i = 0
    /\ processed = <<>>
    /\ place_i = 0
    /\ col_count = 0
    /\ row_max_height = 0
    /\ grid = <<>>
    /\ fetched_ok = <<>>

\* The normalisation pass over the items and the summary counts.
Summarise ==
    /\ rpc = "start"
    /\ LET its == [i \in 1..Len(items) |-> Normalise(items[i])]
       IN  /\ items' = its
           /\ perguntas_ok' = Len(SelectSeq(its, IsOk))
           /\ perguntas_nok' = Len(SelectSeq(its, IsNok))
           /\ fotos_ok' = SumImagens(SelectSeq(its, IsOk))
           /\ fotos_nok' = SumImagens(SelectSeq(its, IsNok))
    /\ rpc' = "header"
    /\ UNCHANGED <<desc_lines, layoutVars>>

\* Title, metadata rows, the two bordered boxes and the summary cells: the
\* cursor ends at the left margin, 63 mm plus the boxes' lines below the top.
DrawHeader ==
    /\ rpc = "header"
    /\ page' = 1
    /\ cur_x' = l_margin
    /\ cur_y' = (10 + 16) + 2 * line_height + 3
                  + desc_lines * (line_height - 1) + 2 + 2 * line_height + 8
    /\ rpc' = IF items = <<>> THEN "output" ELSE "item"
    /\ UNCHANGED <<desc_lines, items, summaryVars, item_i, item_page, problema_line, img_i,
                   processed, place_i, col_count, row_max_height, fetched_ok, grid>>

\* The head of the loop body: predict the block height, break the page when
\* the block does not fit, draw the title.
ItemBegin ==
    /\ rpc = "item"
    /\ LET it      == items[item_i + 1]
           title   == it.title
           problem == it.problem
           block   == BlockHeight(title, problem, Len(it.imagens))
           break   == cur_y + block > page_break_trigger
           y0      == IF break THEN t_margin ELSE cur_y
           p0      == IF break THEN page + 1 ELSE page
           after   == MultiCell(y0, p0, MultiCellLines(title, page_w - l_margin - r_margin, 10), 5)
       IN  /\ item_page' = p0
           /\ cur_y' = after[1]
           /\ page' = after[2]
           /\ problema_line' = problem
    /\ cur_x' = l_margin
    /\ rpc' = "status"
    /\ UNCHANGED <<desc_lines, items, summaryVars, item_i, img_i, processed, place_i,
                   col_count, row_max_height, fetched_ok, grid>>

\* "Status: ", the status badge, the tag badges, and the line feed after them.
ItemStatus ==
    /\ rpc = "status"
    /\ LET it      == items[item_i + 1]
           tags    == it.tags
           at      == CellAt(cur_y, page, 5)
           x0      == l_margin + StatusLabelW + 1
           badge_w == (IF IsOk(it) THEN ConformeW ELSE NaoConformeW) + 2 * pad_x
           after   == IF tags = <<>> THEN <<x0 + badge_w, at[1], at[2]>>
                      ELSE TagLoop(tags, x0 + badge_w + 3, at[1], at[2])
       IN  /\ cur_y' = after[2] + badge_h
           /\ page' = after[3]
    /\ cur_x' = l_margin
    /\ rpc' = "problem"
    /\ UNCHANGED <<desc_lines, items, summaryVars, item_i, item_page, problema_line, img_i,
                   processed, place_i, col_count, row_max_height, fetched_ok, grid>>

\* The problem text; then the start of the image block, or the spacing of an
\* item without images.
ItemProblem ==
    /\ rpc = "problem"
    /\ LET after == MultiCell(cur_y, page,
                              MultiCellLines(problema_line, page_w - l_margin - r_margin, 10), 5)
       IN  /\ page' = after[2]
           /\ IF items[item_i + 1].imagens # <<>>
              THEN /\ cur_y' = after[1] + 2
                   /\ rpc' = "fetch"
              ELSE /\ cur_y' = after[1] + 5
                   /\ rpc' = "item_end"
    /\ cur_x' = l_margin
    /\ img_i' = 0
    /\ processed' = <<>>
    /\ grid' = <<>>
    /\ place_i' = 0
    /\ col_count' = 0
    /\ row_max_height' = 0
    /\ UNCHANGED <<desc_lines, items, summaryVars, item_i, item_page, problema_line, fetched_ok>>

\* One iteration of the first image loop that ends without an exception:
\* fetch, annotate, re-encode, build the caption; the image is kept or dropped.
FetchImage ==
    /\ rpc = "fetch"
    /\ img_i < Len(items[item_i + 1].imagens)
    /\ \E fetch \in {"ok", "absent"}, rec \in {"ok", "fallback", "invalid"} :
          LET anns == items[item_i + 1].imagens[img_i + 1] IN
          /\ (fetch = "ok" /\ rec # "invalid") => ~CaptionRaisesFor(anns)
          /\ fetched_ok' = IF fetch = "ok"
                           THEN [fetched_ok EXCEPT ![item_i + 1] = @ + 1]
                           ELSE fetched_ok
          /\ processed' = IF fetch = "ok" /\ rec # "invalid"
                          THEN Append(processed, Caption(anns))
                          ELSE processed
    /\ img_i' = img_i + 1
    /\ UNCHANGED <<rpc, desc_lines, items, summaryVars, item_i, cur_x, cur_y, page, item_page,
                   problema_line, place_i, col_count, row_max_height, grid>>

\* The caption loop raises on an annotation's description: no handler inside
\* the loop body, so the outer except logs and re-raises.
CaptionRaises ==
    /\ rpc = "fetch"
    /\ img_i < Len(items[item_i + 1].imagens)
    /\ CaptionRaisesFor(items[item_i + 1].imagens[img_i + 1])
    /\ fetched_ok' = [fetched_ok EXCEPT ![item_i + 1] = @ + 1]
    /\ rpc' = "raised"
    /\ UNCHANGED <<desc_lines, items, summaryVars, item_i, cur_x, cur_y, page, item_page,
                   problema_line, img_i, processed, place_i, col_count, row_max_height, grid>>

\* The first loop is over: on to placing the processed images.
FetchDone ==
    /\ rpc = "fetch"
    /\ img_i = Len(items[item_i + 1].imagens)
    /\ rpc' = "place"
    /\ UNCHANGED <<desc_lines, items, summaryVars, layoutVars>>

\* if col_count == 3
GridWraps(cols) == cols = 3

\* One iteration of the placement loop: wrap after three columns, place the
\* image (or fail and skip it), draw its caption, move to the next column.
PlaceImage ==
    /\ rpc = "place"
    /\ place_i < Len(processed)
    /\ \E placed \in BOOLEAN :
          LET cap     == processed[place_i + 1]
              wrap    == GridWraps(col_count)
              y       == IF wrap
                         THEN cur_y + (IF row_max_height # 0 THEN row_max_height + img_margin
                                       ELSE img_height + img_margin)
                         ELSE cur_y
              x       == IF wrap THEN l_margin ELSE cur_x
              cols    == IF wrap THEN 0 ELSE col_count
              rowmax  == IF wrap THEN 0 ELSE row_max_height
              lines   == GetTextLineCount(cap, img_width, 10)
              drawn   == MultiCell(y + img_height + 1, page, MultiCellLines(cap, img_width, 8), 4)
              used    == IF cap # <<>> THEN img_height + 1 + lines * 4 ELSE img_height
          IN  IF placed
              THEN /\ page' = IF cap # <<>> THEN drawn[2] ELSE page
                   /\ row_max_height' = IF rowmax >= used THEN rowmax ELSE used
                   /\ cur_x' = x + img_width + img_margin
                   /\ cur_y' = y
                   /\ col_count' = cols + 1
                   /\ grid' = Append(grid, [img |-> place_i + 1, x |-> x, y |-> y,
                                            used |-> used])
              ELSE /\ page' = page
                   /\ row_max_height' = rowmax
                   /\ cur_x' = x
                   /\ cur_y' = y
                   /\ col_count' = cols
                   /\ grid' = grid
    /\ place_i' = place_i + 1
    /\ UNCHANGED <<rpc, desc_lines, items, summaryVars, item_i, item_page, problema_line,
                   img_i, processed, fetched_ok>>

\* After the placement loop: the line feed below the last row.
ImagesEnd ==
    /\ rpc = "place"
    /\ place_i = Len(processed)
    /\ cur_y' = IF col_count > 0
                THEN cur_y + (IF row_max_height # 0 THEN row_max_height + 4 ELSE img_height + 4)
                ELSE cur_y + 5
    /\ cur_x' = l_margin
    /\ rpc' = "item_end"
    /\ UNCHANGED <<desc_lines, items, summaryVars, item_i, page, item_page, problema_line,
                   img_i, processed, place_i, col_count, row_max_height, fetched_ok, grid>>

\* pdf.ln(4), and on to the next item or to the output.
ItemEnd ==
    /\ rpc = "item_end"
    /\ cur_y' = cur_y + 4
    /\ cur_x' = l_margin
    /\ item_i' = item_i + 1
    /\ rpc' = IF item_i + 1 < Len(items) THEN "item" ELSE "output"
    /\ UNCHANGED <<desc_lines, items, summaryVars, page, item_page, problema_line,
                   img_i, processed, place_i, col_count, row_max_height, fetched_ok, grid>>

\* pdf.output(): the document's bytes are returned.
Output ==
    /\ rpc = "output"
    /\ rpc' = "done"
    /\ UNCHANGED <<desc_lines, items, summaryVars, layoutVars>>

\* ------------------------------------------------------------------------
\* Report endpoint: generate_report_endpoint
\* ------------------------------------------------------------------------

\* request.args.get('key'): missing, empty, or a name.
RequestKeys == { None, Some(<<>>), Some(<<"k">>) }

\* The request body: none at all, text that is no JSON, the falsy JSON values
\* null, {} and [], a non-empty JSON array, or a JSON object whose 'original'
\* is missing, an object, a list or a string.
RequestBodies ==
    { [kind |-> k, original |-> "missing"] :
          k \in {"none", "malformed", "null", "empty_object", "empty_array", "array"} }
    \cup { [kind |-> "object", original |-> o] :
          o \in {"missing", "dict", "list", "str"} }

\* What the report's payload does to generate_pdf once 'original' is
\* accepted: nothing, or a failure during assembly, drawing or serialization.
PayloadFaults == { "none", "assembly", "drawing", "serialization" }

\* The classes of the exceptions that reach the endpoint's handlers, each with
\* whether isinstance(e, ValueError) holds: UnicodeEncodeError is a subclass
\* of ValueError.
ExceptionClasses == { "ValueError", "UnicodeEncodeError", "AttributeError", "TypeError", "BadRequest" }

IsValueError(cls) == cls \in { "ValueError", "UnicodeEncodeError" }

\* The classes a failure past the validation of 'original' can have.
FaultClasses == { "UnicodeEncodeError", "AttributeError", "TypeError" }

\* Python truthiness of the parsed body.
Truthy(body) == body.kind \in {"array", "object"}

VARIABLES
    epc,              \* position in generate_report_endpoint
    req_key,          \* request.args.get('key')
    req_body,         \* the request's body
    fault,            \* what the payload does to generate_pdf
    request_data,     \* request.get_json(), None before
    generate_called,  \* generator.generate_pdf was entered
    generate_done,    \* generator.generate_pdf returned its bytes
    raised,           \* the class of the exception raised, None if none
    raised_in,        \* where it was raised: "get_json", "validation", "generation"
    status,           \* the response's status, 0 before
    pdf_returned      \* the response carries document bytes

endpointVars == <<epc, req_key, req_body, fault, request_data, generate_called,
                  generate_done, raised, raised_in, status, pdf_returned>>

InitEndpoint ==
    /\ epc = "key"
    /\ req_key \in RequestKeys
    /\ req_body \in RequestBodies
    /\ fault \in PayloadFaults
    /\ request_data = None
    /\ generate_called = FALSE
    /\ generate_done = FALSE
    /\ raised = None
    /\ raised_in = "nowhere"
    /\ status = 0
    /\ pdf_returned = FALSE

IdleEndpoint ==
    /\ epc = "idle"
    /\ req_key = None
    /\ req_body = [kind |-> "none", original |-> "missing"]
    /\ fault = "none"
    /\ request_data = None
    /\ generate_called = FALSE
    /\ generate_done = FALSE
    /\ raised = None
    /\ raised_in = "nowhere"
    /\ status = 0
    /\ pdf_returned = FALSE

\* except ValueError -> 400, except Exception -> 500.
StatusFor(cls) == IF IsValueError(cls) THEN 400 ELSE 500

\* if not key: 400.
KeyMissing ==
    /\ epc = "key"
    /\ req_key = None \/ req_key = Some(<<>>)
    /\ status' = 400
    /\ epc' = "responded"
    /\ UNCHANGED <<req_key, req_body, fault, request_data, generate_called, generate_done,
                   raised, raised_in, pdf_returned>>

KeyPresent ==
    /\ epc = "key"
    /\ req_key # None /\ req_key # Some(<<>>)
    /\ epc' = "get_json"
    /\ UNCHANGED <<req_key, req_body, fault, request_data, generate_called, generate_done,
                   raised, raised_in, status, pdf_returned>>

\* request.get_json() returns the parsed body; for a request without a body it
\* returns None when the framework does not attempt to parse it.
GetJsonReturns ==
    /\ epc = "get_json"
    /\ req_body.kind # "malformed"
    /\ request_data' = Some(req_body)
    /\ epc' = "body"
    /\ UNCHANGED <<req_key, req_body, fault, generate_called, generate_done,
                   raised, raised_in, status, pdf_returned>>

\* request.get_json() raises BadRequest for a body that is no JSON, and for a
\* request without a body when the framework attempts to parse it: the
\* exception is raised inside the try and is no ValueError.
GetJsonRaises ==
    /\ epc = "get_json"
    /\ req_body.kind \in {"none", "malformed"}
    /\ raised' = Some("BadRequest")
    /\ raised_in' = "get_json"
    /\ status' = StatusFor("BadRequest")
    /\ epc' = "responded"
    /\ UNCHANGED <<req_key, req_body, fault, request_data, generate_called, generate_done,
                   pdf_returned>>

\* if not request_data: 400.
BodyMissing ==
    /\ epc = "body"
    /\ ~Truthy(Val(request_data))
    /\ status' = 400
    /\ epc' = "responded"
    /\ UNCHANGED <<req_key, req_body, fault, request_data, generate_called, generate_done,
                   raised, raised_in, pdf_returned>>

BodyPresent ==
    /\ epc = "body"
    /\ Truthy(Val(request_data))
    /\ epc' = "generate"
    /\ UNCHANGED <<req_key, req_body, fault, request_data, generate_called, generate_done,
                   raised, raised_in, status, pdf_returned>>

\* generate_pdf on a body that is no object: request_data.get raises
\* AttributeError, which generate_pdf logs and re-raises.
GenerateNoObject ==
    /\ epc = "generate"
    /\ Val(request_data).kind = "array"
    /\ generate_called' = TRUE
    /\ raised' = Some("AttributeError")
    /\ raised_in' = "generation"
    /\ status' = StatusFor("AttributeError")
    /\ epc' = "responded"
    /\ UNCHANGED <<req_key, req_body, fault, request_data, generate_done, pdf_returned>>

\* generate_pdf raises ValueError for an 'original' that is no dict.
GenerateInvalid ==
    /\ epc = "generate"
    /\ Val(request_data).kind = "object"
    /\ Val(request_data).original \in {"list", "str"}
    /\ generate_called' = TRUE
    /\ raised' = Some("ValueError")
    /\ raised_in' = "validation"
    /\ status' = StatusFor("ValueError")
    /\ epc' = "responded"
    /\ UNCHANGED <<req_key, req_body, fault, request_data, generate_done, pdf_returned>>

\* generate_pdf fails past the validation: the handler at the end of
\* generate_pdf logs and re-raises whatever was raised, and the endpoint maps
\* it by its class.
GenerateFails ==
    /\ epc = "generate"
    /\ Val(request_data).kind = "object"
    /\ Val(request_data).original \in {"missing", "dict"}
    /\ fault # "none"
    /\ \E cls \in FaultClasses :
          /\ raised' = Some(cls)
          /\ status' = StatusFor(cls)
    /\ generate_called' = TRUE
    /\ raised_in' = "generation"
    /\ epc' = "responded"
    /\ UNCHANGED <<req_key, req_body, fault, request_data, generate_done, pdf_returned>>

\* generate_pdf returns the document's bytes and the endpoint responds with
\* them.
GenerateReturns ==
    /\ epc = "generate"
    /\ Val(request_data).kind = "object"
    /\ Val(request_data).original \in {"missing", "dict"}
    /\ fault = "none"
    /\ generate_called' = TRUE
    /\ generate_done' = TRUE
    /\ pdf_returned' = TRUE
    /\ status' = 200
    /\ epc' = "responded"
    /\ UNCHANGED <<req_key, req_body, fault, request_data, raised, raised_in>>

\* ------------------------------------------------------------------------
\* The tag badges of one item, badge by badge: generate_pdf, the loop over tags
\* ------------------------------------------------------------------------

\* Bounds of the tag lists: up to MaxTags tags, each the width of its label at
\* font size 8 (0: a tag whose label is empty or cannot be read, skipped).
MaxTags == 4

TagWidths == { 0, 40, 90, 150, 250 }

\* The cursor's y when the status line starts: high on the page, and so low
\* that a second badge row passes the page-break trigger.
TagStartYs == { 73, 200, 276 }

VARIABLES
    tpc,              \* position in the loop over tags
    tag_list,         \* item.get('tags')
    tag_start,        \* <<x, y>> of the cursor before the first tag
    tag_i,            \* tags already handled
    tag_x, tag_y,     \* pdf.get_x(), pdf.get_y()
    tag_page,         \* pdf.page
    badges            \* the badges drawn so far, in the order of drawing

tagVars == <<tpc, tag_list, tag_start, tag_i, tag_x, tag_y, tag_page, badges>>

\* The loop starts at pdf.set_x(x0 + badge_w + 3), on the row of the status
\* badge, which is 'Conforme' or 'Não Conforme'.
InitTags ==
    /\ tpc = "tags"
    /\ tag_list \in SeqsUpTo(TagWidths, MaxTags)
    /\ \E status_w \in {ConformeW, NaoConformeW}, y \in TagStartYs :
          tag_start = <<l_margin + StatusLabelW + 1 + status_w + 2 * pad_x + 3, y>>
    /\ tag_i = 0
    /\ tag_x = tag_start[1]
    /\ tag_y = tag_start[2]
    /\ tag_page = 1
    /\ badges = <<>>

IdleTags ==
    /\ tpc = "idle"
    /\ tag_list = <<>>
    /\ tag_start = <<0, 0>>
    /\ tag_i = 0
    /\ tag_x = 0
    /\ tag_y = 0
    /\ tag_page = 0
    /\ badges = <<>>

\* A tag without a label: continue.
TagSkipped ==
    /\ tpc = "tags"
    /\ tag_i < Len(tag_list)
    /\ tag_list[tag_i + 1] = 0
    /\ tag_i' = tag_i + 1
    /\ UNCHANGED <<tpc, tag_list, tag_start, tag_x, tag_y, tag_page, badges>>

\* A tag with a label: wrap to the next row when the badge does not fit, draw
\* the outline at <<x, y>>, then the label in a cell (which may break the
\* page), and move the cursor past the badge.
TagDrawn ==
    /\ tpc = "tags"
    /\ tag_i < Len(tag_list)
    /\ tag_list[tag_i + 1] # 0
    /\ LET tw   == tag_list[tag_i + 1]
           bw   == tw + 2 * 2
           wrap == TagWraps(tag_x, tw)
           x    == IF wrap THEN l_margin ELSE tag_x
           y    == IF wrap THEN tag_y + badge_h ELSE tag_y
           at   == CellAt(y, tag_page, badge_h)
       IN  /\ badges' = Append(badges, [tag |-> tag_i + 1, x |-> x, y |-> y, w |-> bw,
                                        from_x |-> tag_x, from_y |-> tag_y])
           /\ tag_x' = x + bw + 2
           /\ tag_y' = at[1]
           /\ tag_page' = at[2]
    /\ tag_i' = tag_i + 1
    /\ UNCHANGED <<tpc, tag_list, tag_start>>

\* The loop is over.
TagsEnd ==
    /\ tpc = "tags"
    /\ tag_i = Len(tag_list)
    /\ tpc' = "done"
    /\ UNCHANGED <<tag_list, tag_start, tag_i, tag_x, tag_y, tag_page, badges>>

\* ------------------------------------------------------------------------
\* Line-count prediction: PgrChecklistPDFGenerator._get_text_line_count
\* ------------------------------------------------------------------------

\* Bounds of the texts: one or two lines (split on "\n") of up to MaxWords
\* words each, a word being its width at font size 10: two that fit the
\* width, alone and together with the first, and one wider than the width.
MaxWords == 3

WordWidths == { 8, 12, 25 }

TextWidths == { 20 }

CountedTexts ==
    LET Lines == SeqsUpTo(WordWidths, MaxWords)
    IN  {<<>>} \cup {<<l>> : l \in Lines \ {<<>>}} \cup {<<l, m>> : l \in Lines, m \in Lines}

VARIABLES
    wpc,              \* position in _get_text_line_count
    text,             \* the text argument
    width,            \* the width argument
    total_lines       \* the returned count, 0 before

lineVars == <<wpc, text, width, total_lines>>

InitLines ==
    /\ wpc = "call"
    /\ text \in CountedTexts
    /\ width \in TextWidths
    /\ total_lines = 0

IdleLines ==
    /\ wpc = "idle"
    /\ text = <<>>
    /\ width = 0
    /\ total_lines = 0

\* The call returns its count (the font is at size 10).
CountLines ==
    /\ wpc = "call"
    /\ total_lines' = GetTextLineCount(text, width, 10)
    /\ wpc' = "done"
    /\ UNCHANGED <<text, width>>

\* ------------------------------------------------------------------------
\* Block-height prediction of an item and of the same item with more in it:
\* generate_pdf, block_height and the page-break decision
\* ------------------------------------------------------------------------

\* Bounds of the items: a label and a problem text of up to MaxPredictWords
\* words after "Item:" and "Problema(s):", up to MaxPredictImages images.
MaxPredictWords == 2

MaxPredictImages == 3

\* Widths of the words at font size 10: the last is wider than the page.
PredictWordWidths == { 60, 100, 200 }

\* What is appended to a text: letters that widen its last word by grow (a
\* word of their own after "Item: " or "Problema(s): "), then a new line or
\* not, then further words.
Appendices ==
    { [grow |-> g, newline |-> n, words |-> ws] :
          g \in {0, 50, 150}, n \in BOOLEAN, ws \in SeqsUpTo(PredictWordWidths, 1) }
    \ { [grow |-> 0, newline |-> n, words |-> <<>>] : n \in BOOLEAN }

\* The words of a line with grow more width in the last of them.
Widen(ws, grow) ==
    IF grow = 0 THEN ws
    ELSE IF ws = <<>> THEN <<grow>>
    ELSE [ws EXCEPT ![Len(ws)] = @ + grow]

\* The text "<prefix> <words>" (one line) with the appendix after it; a new
\* line can be appended to the label only, in the problem text "\n" is
\* replaced by a space.
Appended(prefix, ws, a, keepNewline) ==
    IF a.newline /\ keepNewline
    THEN << <<prefix>> \o Widen(ws, a.grow), a.words >>
    ELSE << <<prefix>> \o Widen(ws, a.grow) \o a.words >>

VARIABLES
    ppc,              \* "call" before the two predictions, "done" after
    label_words,      \* the words of the item's label
    problem_words,    \* the words of the problem text
    image_count,      \* len(imagens)
    more,             \* what the second item has more: <<"image">>,
                      \* <<"label", appendix>> or <<"problem", appendix>>
    block_height,     \* block_height of the item
    block_height_more \* block_height of the item with more in it

predictVars == <<ppc, label_words, problem_words, image_count, more,
                 block_height, block_height_more>>

InitPredict ==
    /\ ppc = "call"
    /\ label_words \in SeqsUpTo(PredictWordWidths, MaxPredictWords)
    /\ problem_words \in SeqsUpTo(PredictWordWidths, MaxPredictWords)
    /\ image_count \in 0..MaxPredictImages
    /\ more \in {<<"image">>} \cup { <<f, a>> : f \in {"label", "problem"}, a \in Appendices }
    /\ block_height = 0
    /\ block_height_more = 0

IdlePredict ==
    /\ ppc = "idle"
    /\ label_words = <<>>
    /\ problem_words = <<>>
    /\ image_count = 0
    /\ more = <<"image">>
    /\ block_height = 0
    /\ block_height_more = 0

\* block_height for the item and for the item with more in it.
Predict ==
    /\ ppc = "call"
    /\ block_height' = BlockHeight(<< <<9>> \o label_words >>,
                                   << <<22>> \o problem_words >>, image_count)
    /\ block_height_more' =
          BlockHeight(IF more[1] = "label" THEN Appended(9, label_words, more[2], TRUE)
                      ELSE << <<9>> \o label_words >>,
                      IF more[1] = "problem" THEN Appended(22, problem_words, more[2], FALSE)
                      ELSE << <<22>> \o problem_words >>,
                      IF more[1] = "image" THEN image_count + 1 ELSE image_count)
    /\ ppc' = "done"
    /\ UNCHANGED <<label_words, problem_words, image_count, more>>

\* ------------------------------------------------------------------------
\* Image sources: PgrChecklistPDFGenerator._fetch_single_image_bytes
\* ------------------------------------------------------------------------

\* bool(v) for the values an image reference carries: None and '' are falsy.
PyTruthy(v) == v # PyNull /\ v # PyStr(<<>>)

\* a or b
PyOr(a, b) == IF PyTruthy(a) THEN a ELSE b

\* The image references of the model: a mapping with the keys img_path,
\* img_url and url (a missing key reads as None), or a value that is no
\* mapping at all.
SourcePaths == {PyNull, PyStr(<<>>), PyStr(<<"o">>)}
SourceUrls ==
    {PyStr(BuildUrl("gs", <<"bkt">>, <<"/", "o">>)),
     PyStr(BuildUrl("gs", <<"bkt">>, <<>>)),
     PyStr(BuildUrl("flat", <<"bkt">>, <<"/", "o">>)),
     PyStr(BuildUrl("other", <<"bkt">>, <<"/", "o">>))}
SourceImgUrls == {PyNull, PyStr(<<>>)} \cup SourceUrls
SourceAltUrls == {PyNull, PyStr(BuildUrl("gs", <<"bkt">>, <<"/", "o">>)),
                  PyStr(BuildUrl("other", <<"bkt">>, <<"/", "o">>))}

\* self._parse_gcs_url(u) under the feature flag.
SourceGcsInfo(flag, u) == IF flag THEN ParseGcsUrl(u[2]) ELSE None

\* "if gcs_info:" sends the URL to the storage client, "else:" to
\* _download_single_url.
UrlRouteHttp(info) == "url_http"
UrlRoute(info) == IF info # None THEN "url_exists" ELSE "url_http"

VARIABLES
    spc,             \* position in _fetch_single_image_bytes
    img_is_dict,     \* whether img_obj is a mapping
    img_path,        \* img_obj.get('img_path')
    img_url,         \* img_obj.get('img_url')
    alt_url,         \* img_obj.get('url')
    src_flag,        \* self.use_gcs_for_storage_urls during the call
    p, u,            \* the locals p and u
    src_gcs_info,    \* the local gcs_info
    attempts,        \* history: the calls made to a source, in order
    src_result       \* the return value

sourceVars == <<spc, img_is_dict, img_path, img_url, alt_url, src_flag, p, u,
                src_gcs_info, attempts, src_result>>

InitSource ==
    /\ spc = "start"
    /\ img_is_dict \in BOOLEAN
    /\ img_path \in SourcePaths
    /\ img_url \in SourceImgUrls
    /\ alt_url \in SourceAltUrls
    /\ src_flag \in BOOLEAN
    /\ p = PyNull
    /\ u = PyNull
    /\ src_gcs_info = None
    /\ attempts = <<>>
    /\ src_result = None

IdleSource ==
    /\ spc = "idle"
    /\ img_is_dict = TRUE
    /\ img_path = PyNull
    /\ img_url = PyNull
    /\ alt_url = PyNull
    /\ src_flag = TRUE
    /\ p = PyNull
    /\ u = PyNull
    /\ src_gcs_info = None
    /\ attempts = <<>>
    /\ src_result = None

Attempt(source, via, call, outcome) ==
    [source |-> source, via |-> via, call |-> call, outcome |-> outcome]

SourceReturn(r) ==
    /\ src_result' = r
    /\ spc' = "done"

\* img_obj.get raises for a value that is no mapping; the handler returns None.
ReferenceRaises ==
    /\ spc = "start"
    /\ ~img_is_dict
    /\ SourceReturn(None)
    /\ UNCHANGED <<img_is_dict, img_path, img_url, alt_url, src_flag, p, u,
                   src_gcs_info, attempts>>

\* p = img_obj.get('img_path'); u = img_obj.get('img_url') or img_obj.get('url');
\* "if p:" decides whether the inline path is tried.
ReadReference ==
    /\ spc = "start"
    /\ img_is_dict
    /\ p' = img_path
    /\ u' = PyOr(img_url, alt_url)
    /\ spc' = IF PyTruthy(img_path) THEN "path_exists" ELSE "url_test"
    /\ UNCHANGED <<img_is_dict, img_path, img_url, alt_url, src_flag,
                   src_gcs_info, attempts, src_result>>

\* self.bucket.blob(p).exists() returns True.
PathExists ==
    /\ spc = "path_exists"
    /\ attempts' = Append(attempts, Attempt("path", "storage", "exists", "true"))
    /\ spc' = "path_download"
    /\ UNCHANGED <<img_is_dict, img_path, img_url, alt_url, src_flag, p, u,
                   src_gcs_info, src_result>>

\* exists() returns False: the alert is printed and control falls to "if u:".
PathNotFound ==
    /\ spc = "path_exists"
    /\ attempts' = Append(attempts, Attempt("path", "storage", "exists", "false"))
    /\ spc' = "url_test"
    /\ UNCHANGED <<img_is_dict, img_path, img_url, alt_url, src_flag, p, u,
                   src_gcs_info, src_result>>

\* exists() raises: except Exception returns None.
PathExistsRaises ==
    /\ spc = "path_exists"
    /\ attempts' = Append(attempts, Attempt("path", "storage", "exists", "raises"))
    /\ SourceReturn(None)
    /\ UNCHANGED <<img_is_dict, img_path, img_url, alt_url, src_flag, p, u,
                   src_gcs_info>>

\* return blob.download_as_bytes()
PathDownload ==
    /\ spc = "path_download"
    /\ attempts' = Append(attempts, Attempt("path", "storage", "download", "bytes"))
    /\ SourceReturn(Some("path bytes"))
    /\ UNCHANGED <<img_is_dict, img_path, img_url, alt_url, src_flag, p, u,
                   src_gcs_info>>

\* download_as_bytes() raises.
PathDownloadRaises ==
    /\ spc = "path_download"
    /\ attempts' = Append(attempts, Attempt("path", "storage", "download", "raises"))
    /\ SourceReturn(None)
    /\ UNCHANGED <<img_is_dict, img_path, img_url, alt_url, src_flag, p, u,
                   src_gcs_info>>

\* "if u:" is false: return None.
UrlAbsent ==
    /\ spc = "url_test"
    /\ ~PyTruthy(u)
    /\ SourceReturn(None)
    /\ UNCHANGED <<img_is_dict, img_path, img_url, alt_url, src_flag, p, u,
                   src_gcs_info, attempts>>

\* gcs_info = self._parse_gcs_url(u); "if gcs_info:".
UrlClassified ==
    /\ spc = "url_test"
    /\ PyTruthy(u)
    /\ src_gcs_info' = SourceGcsInfo(src_flag, u)
    /\ spc' = UrlRoute(SourceGcsInfo(src_flag, u))
    /\ UNCHANGED <<img_is_dict, img_path, img_url, alt_url, src_flag, p, u,
                   attempts, src_result>>

\* self.gcs_client.bucket(bucket_name).blob(object_path).exists() returns True.
UrlExists ==
    /\ spc = "url_exists"
    /\ attempts' = Append(attempts, Attempt("url", "storage", "exists", "true"))
    /\ spc' = "url_download"
    /\ UNCHANGED <<img_is_dict, img_path, img_url, alt_url, src_flag, p, u,
                   src_gcs_info, src_result>>

\* exists() returns False: the alert is printed, then "return None".
UrlNotFound ==
    /\ spc = "url_exists"
    /\ attempts' = Append(attempts, Attempt("url", "storage", "exists", "false"))
    /\ SourceReturn(None)
    /\ UNCHANGED <<img_is_dict, img_path, img_url, alt_url, src_flag, p, u,
                   src_gcs_info>>

\* exists() raises.
UrlExistsRaises ==
    /\ spc = "url_exists"
    /\ attempts' = Append(attempts, Attempt("url", "storage", "exists", "raises"))
    /\ SourceReturn(None)
    /\ UNCHANGED <<img_is_dict, img_path, img_url, alt_url, src_flag, p, u,
                   src_gcs_info>>

\* return blob.download_as_bytes()
UrlDownload ==
    /\ spc = "url_download"
    /\ attempts' = Append(attempts, Attempt("url", "storage", "download", "bytes"))
    /\ SourceReturn(Some("url bytes"))
    /\ UNCHANGED <<img_is_dict, img_path, img_url, alt_url, src_flag, p, u,
                   src_gcs_info>>

\* download_as_bytes() raises.
UrlDownloadRaises ==
    /\ spc = "url_download"
    /\ attempts' = Append(attempts, Attempt("url", "storage", "download", "raises"))
    /\ SourceReturn(None)
    /\ UNCHANGED <<img_is_dict, img_path, img_url, alt_url, src_flag, p, u,
                   src_gcs_info>>

\* return self._download_single_url(u): the downloader returns the bytes.
HttpDownload ==
    /\ spc = "url_http"
    /\ attempts' = Append(attempts, Attempt("url", "http", "get", "bytes"))
    /\ SourceReturn(Some("http bytes"))
    /\ UNCHANGED <<img_is_dict, img_path, img_url, alt_url, src_flag, p, u,
                   src_gcs_info>>

\* return self._download_single_url(u): the downloader returns None (it
\* catches its own exceptions).
HttpFails ==
    /\ spc = "url_http"
    /\ attempts' = Append(attempts, Attempt("url", "http", "get", "none"))
    /\ SourceReturn(None)
    /\ UNCHANGED <<img_is_dict, img_path, img_url, alt_url, src_flag, p, u,
                   src_gcs_info>>

vars == <<locatorVars, fetchVars, batchVars, reportVars, endpointVars, tagVars, lineVars, predictVars, sourceVars>>



NextLocator ==
    \/ ParseDisabled /\ UNCHANGED <<fetchVars, batchVars, reportVars, endpointVars, tagVars, lineVars, predictVars, sourceVars>>
    \/ ParseEnabled /\ UNCHANGED <<fetchVars, batchVars, reportVars, endpointVars, tagVars, lineVars, predictVars, sourceVars>>

StartLocator ==
    InitLocator /\ IdleFetch /\ IdleBatch /\ IdleReport /\ IdleEndpoint /\ IdleTags /\ IdleLines /\ IdlePredict /\ IdleSource

SpecLocator == StartLocator /\ [][NextLocator]_vars

NextFetch ==
    \/ HostNotAllowed /\ UNCHANGED <<locatorVars, batchVars, reportVars, endpointVars, tagVars, lineVars, predictVars, sourceVars>>
    \/ RequestsGet /\ UNCHANGED <<locatorVars, batchVars, reportVars, endpointVars, tagVars, lineVars, predictVars, sourceVars>>
    \/ RequestsGetRaises /\ UNCHANGED <<locatorVars, batchVars, reportVars, endpointVars, tagVars, lineVars, predictVars, sourceVars>>
    \/ ReadChunk /\ UNCHANGED <<locatorVars, batchVars, reportVars, endpointVars, tagVars, lineVars, predictVars, sourceVars>>
    \/ StreamRaises /\ UNCHANGED <<locatorVars, batchVars, reportVars, endpointVars, tagVars, lineVars, predictVars, sourceVars>>
    \/ StreamEnd /\ UNCHANGED <<locatorVars, batchVars, reportVars, endpointVars, tagVars, lineVars, predictVars, sourceVars>>
    \/ ValidateOk /\ UNCHANGED <<locatorVars, batchVars, reportVars, endpointVars, tagVars, lineVars, predictVars, sourceVars>>
    \/ ValidateFails /\ UNCHANGED <<locatorVars, batchVars, reportVars, endpointVars, tagVars, lineVars, predictVars, sourceVars>>

StartFetch ==
    InitFetch /\ IdleLocator /\ IdleBatch /\ IdleReport /\ IdleEndpoint /\ IdleTags /\ IdleLines /\ IdlePredict /\ IdleSource

SpecFetch == StartFetch /\ [][NextFetch]_vars

NextBatch ==
    \/ ImagesEntry /\ UNCHANGED <<locatorVars, fetchVars, reportVars, endpointVars, tagVars, lineVars, predictVars, sourceVars>>
    \/ ImagesExistsRaises /\ UNCHANGED <<locatorVars, fetchVars, reportVars, endpointVars, tagVars, lineVars, predictVars, sourceVars>>
    \/ ImagesNextChunk /\ UNCHANGED <<locatorVars, fetchVars, reportVars, endpointVars, tagVars, lineVars, predictVars, sourceVars>>
    \/ ImagesReturn /\ UNCHANGED <<locatorVars, fetchVars, reportVars, endpointVars, tagVars, lineVars, predictVars, sourceVars>>
    \/ GcsEntry /\ UNCHANGED <<locatorVars, fetchVars, reportVars, endpointVars, tagVars, lineVars, predictVars, sourceVars>>
    \/ GcsReturn /\ UNCHANGED <<locatorVars, fetchVars, reportVars, endpointVars, tagVars, lineVars, predictVars, sourceVars>>
    \/ UrlsEmpty /\ UNCHANGED <<locatorVars, fetchVars, reportVars, endpointVars, tagVars, lineVars, predictVars, sourceVars>>
    \/ UrlsSubmit /\ UNCHANGED <<locatorVars, fetchVars, reportVars, endpointVars, tagVars, lineVars, predictVars, sourceVars>>
    \/ (\E i \in 1..MaxBatch + 1 : i <= Len(futures) /\ TaskCompletes(i))
          /\ UNCHANGED <<locatorVars, fetchVars, reportVars, endpointVars, tagVars, lineVars, predictVars, sourceVars>>
    \/ UrlsCollect /\ UNCHANGED <<locatorVars, fetchVars, reportVars, endpointVars, tagVars, lineVars, predictVars, sourceVars>>
    \/ UrlsReturn /\ UNCHANGED <<locatorVars, fetchVars, reportVars, endpointVars, tagVars, lineVars, predictVars, sourceVars>>

StartBatch ==
    InitBatch /\ IdleLocator /\ IdleFetch /\ IdleReport /\ IdleEndpoint /\ IdleTags /\ IdleLines /\ IdlePredict /\ IdleSource

SpecBatch == StartBatch /\ [][NextBatch]_vars

NextReport ==
    \/ Summarise /\ UNCHANGED <<locatorVars, fetchVars, batchVars, endpointVars, tagVars, lineVars, predictVars, sourceVars>>
    \/ DrawHeader /\ UNCHANGED <<locatorVars, fetchVars, batchVars, endpointVars, tagVars, lineVars, predictVars, sourceVars>>
    \/ ItemBegin /\ UNCHANGED <<locatorVars, fetchVars, batchVars, endpointVars, tagVars, lineVars, predictVars, sourceVars>>
    \/ ItemStatus /\ UNCHANGED <<locatorVars, fetchVars, batchVars, endpointVars, tagVars, lineVars, predictVars, sourceVars>>
    \/ ItemProblem /\ UNCHANGED <<locatorVars, fetchVars, batchVars, endpointVars, tagVars, lineVars, predictVars, sourceVars>>
    \/ FetchImage /\ UNCHANGED <<locatorVars, fetchVars, batchVars, endpointVars, tagVars, lineVars, predictVars, sourceVars>>
    \/ CaptionRaises /\ UNCHANGED <<locatorVars, fetchVars, batchVars, endpointVars, tagVars, lineVars, predictVars, sourceVars>>
    \/ FetchDone /\ UNCHANGED <<locatorVars, fetchVars, batchVars, endpointVars, tagVars, lineVars, predictVars, sourceVars>>
    \/ PlaceImage /\ UNCHANGED <<locatorVars, fetchVars, batchVars, endpointVars, tagVars, lineVars, predictVars, sourceVars>>
    \/ ImagesEnd /\ UNCHANGED <<locatorVars, fetchVars, batchVars, endpointVars, tagVars, lineVars, predictVars, sourceVars>>
    \/ ItemEnd /\ UNCHANGED <<locatorVars, fetchVars, batchVars, endpointVars, tagVars, lineVars, predictVars, sourceVars>>
    \/ Output /\ UNCHANGED <<locatorVars, fetchVars, batchVars, endpointVars, tagVars, lineVars, predictVars, sourceVars>>

\* The whole of generate_pdf over reports of every conformity input.
StartReport ==
    InitReport /\ IdleLocator /\ IdleFetch /\ IdleBatch /\ IdleEndpoint /\ IdleTags /\ IdleLines /\ IdlePredict /\ IdleSource

SpecReport == StartReport /\ [][NextReport]_vars

\* The same over one-item reports below headers of every height.
StartLayout ==
    InitLayout /\ IdleLocator /\ IdleFetch /\ IdleBatch /\ IdleEndpoint /\ IdleTags /\ IdleLines /\ IdlePredict /\ IdleSource

SpecLayout == StartLayout /\ [][NextReport]_vars

\* The same over one-item reports of four and more images.
StartGrid ==
    InitGrid /\ IdleLocator /\ IdleFetch /\ IdleBatch /\ IdleEndpoint /\ IdleTags /\ IdleLines /\ IdlePredict /\ IdleSource

SpecGrid == StartGrid /\ [][NextReport]_vars

NextEndpoint ==
    \/ KeyMissing /\ UNCHANGED <<locatorVars, fetchVars, batchVars, reportVars, tagVars, lineVars, predictVars, sourceVars>>
    \/ KeyPresent /\ UNCHANGED <<locatorVars, fetchVars, batchVars, reportVars, tagVars, lineVars, predictVars, sourceVars>>
    \/ GetJsonReturns /\ UNCHANGED <<locatorVars, fetchVars, batchVars, reportVars, tagVars, lineVars, predictVars, sourceVars>>
    \/ GetJsonRaises /\ UNCHANGED <<locatorVars, fetchVars, batchVars, reportVars, tagVars, lineVars, predictVars, sourceVars>>
    \/ BodyMissing /\ UNCHANGED <<locatorVars, fetchVars, batchVars, reportVars, tagVars, lineVars, predictVars, sourceVars>>
    \/ BodyPresent /\ UNCHANGED <<locatorVars, fetchVars, batchVars, reportVars, tagVars, lineVars, predictVars, sourceVars>>
    \/ GenerateNoObject /\ UNCHANGED <<locatorVars, fetchVars, batchVars, reportVars, tagVars, lineVars, predictVars, sourceVars>>
    \/ GenerateInvalid /\ UNCHANGED <<locatorVars, fetchVars, batchVars, reportVars, tagVars, lineVars, predictVars, sourceVars>>
    \/ GenerateFails /\ UNCHANGED <<locatorVars, fetchVars, batchVars, reportVars, tagVars, lineVars, predictVars, sourceVars>>
    \/ GenerateReturns /\ UNCHANGED <<locatorVars, fetchVars, batchVars, reportVars, tagVars, lineVars, predictVars, sourceVars>>

StartEndpoint ==
    InitEndpoint /\ IdleLocator /\ IdleFetch /\ IdleBatch /\ IdleReport /\ IdleTags /\ IdleLines /\ IdlePredict /\ IdleSource

SpecEndpoint == StartEndpoint /\ [][NextEndpoint]_vars

NextTags ==
    \/ TagSkipped /\ UNCHANGED <<locatorVars, fetchVars, batchVars, reportVars, endpointVars, lineVars, predictVars, sourceVars>>
    \/ TagDrawn /\ UNCHANGED <<locatorVars, fetchVars, batchVars, reportVars, endpointVars, lineVars, predictVars, sourceVars>>
    \/ TagsEnd /\ UNCHANGED <<locatorVars, fetchVars, batchVars, reportVars, endpointVars, lineVars, predictVars, sourceVars>>

StartTags ==
    InitTags /\ IdleLocator /\ IdleFetch /\ IdleBatch /\ IdleReport /\ IdleEndpoint /\ IdleLines /\ IdlePredict /\ IdleSource

SpecTags == StartTags /\ [][NextTags]_vars

NextLines ==
    \/ CountLines /\ UNCHANGED <<locatorVars, fetchVars, batchVars, reportVars, endpointVars, tagVars, predictVars, sourceVars>>

StartLines ==
    InitLines /\ IdleLocator /\ IdleFetch /\ IdleBatch /\ IdleReport /\ IdleEndpoint /\ IdleTags /\ IdlePredict /\ IdleSource

SpecLines == StartLines /\ [][NextLines]_vars

NextPredict ==
    \/ Predict /\ UNCHANGED <<locatorVars, fetchVars, batchVars, reportVars, endpointVars, tagVars, lineVars, sourceVars>>

StartPredict ==
    InitPredict /\ IdleLocator /\ IdleFetch /\ IdleBatch /\ IdleReport /\ IdleEndpoint /\ IdleTags /\ IdleLines /\ IdleSource

SpecPredict == StartPredict /\ [][NextPredict]_vars

NextSource ==
    \/ ReferenceRaises /\ UNCHANGED <<locatorVars, fetchVars, batchVars, reportVars, endpointVars, tagVars, lineVars, predictVars>>
    \/ ReadReference /\ UNCHANGED <<locatorVars, fetchVars, batchVars, reportVars, endpointVars, tagVars, lineVars, predictVars>>
    \/ PathExists /\ UNCHANGED <<locatorVars, fetchVars, batchVars, reportVars, endpointVars, tagVars, lineVars, predictVars>>
    \/ PathNotFound /\ UNCHANGED <<locatorVars, fetchVars, batchVars, reportVars, endpointVars, tagVars, lineVars, predictVars>>
    \/ PathExistsRaises /\ UNCHANGED <<locatorVars, fetchVars, batchVars, reportVars, endpointVars, tagVars, lineVars, predictVars>>
    \/ PathDownload /\ UNCHANGED <<locatorVars, fetchVars, batchVars, reportVars, endpointVars, tagVars, lineVars, predictVars>>
    \/ PathDownloadRaises /\ UNCHANGED <<locatorVars, fetchVars, batchVars, reportVars, endpointVars, tagVars, lineVars, predictVars>>
    \/ UrlAbsent /\ UNCHANGED <<locatorVars, fetchVars, batchVars, reportVars, endpointVars, tagVars, lineVars, predictVars>>
    \/ UrlClassified /\ UNCHANGED <<locatorVars, fetchVars, batchVars, reportVars, endpointVars, tagVars, lineVars, predictVars>>
    \/ UrlExists /\ UNCHANGED <<locatorVars, fetchVars, batchVars, reportVars, endpointVars, tagVars, lineVars, predictVars>>
    \/ UrlNotFound /\ UNCHANGED <<locatorVars, fetchVars, batchVars, reportVars, endpointVars, tagVars, lineVars, predictVars>>
    \/ UrlExistsRaises /\ UNCHANGED <<locatorVars, fetchVars, batchVars, reportVars, endpointVars, tagVars, lineVars, predictVars>>
    \/ UrlDownload /\ UNCHANGED <<locatorVars, fetchVars, batchVars, reportVars, endpointVars, tagVars, lineVars, predictVars>>
    \/ UrlDownloadRaises /\ UNCHANGED <<locatorVars, fetchVars, batchVars, reportVars, endpointVars, tagVars, lineVars, predictVars>>
    \/ HttpDownload /\ UNCHANGED <<locatorVars, fetchVars, batchVars, reportVars, endpointVars, tagVars, lineVars, predictVars>>
    \/ HttpFails /\ UNCHANGED <<locatorVars, fetchVars, batchVars, reportVars, endpointVars, tagVars, lineVars, predictVars>>

StartSource ==
    InitSource /\ IdleLocator /\ IdleFetch /\ IdleBatch /\ IdleReport /\ IdleEndpoint /\ IdleTags /\ IdleLines /\ IdlePredict

SpecSource == StartSource /\ [][NextSource]_vars

\* ------------------------------------------------------------------------
\* Resource Locator properties
\* ------------------------------------------------------------------------

\* The text after the bucket is "/" followed by a non-empty object path.
WellFormedTail ==
    Len(urlTail) >= 2 /\ urlTail[1] = "/" /\ urlTail[2] # "/"

\* C2: with the flag enabled, a well-formed gs://B/O or
\* https://storage.googleapis.com/B/O (B and O non-empty) decodes to
\* (B, percent-decoded O): the whole object path, the same for both forms.
C2_DecodesWholeObject ==
    ( /\ lpc = "done"
      /\ use_gcs_for_storage_urls
      /\ urlForm \in {"gs", "flat"}
      /\ urlBucket # <<>>
      /\ WellFormedTail )
    => gcs_info = Some(<<urlBucket, Unquote(Drop(urlTail, 1))>>)

\* C3: whenever _parse_gcs_url returns a pair, the bucket and the object path
\* are both non-empty; with the flag disabled it returns None.
C3_RejectsMalformed ==
    lpc = "done" =>
        /\ gcs_info # None => (Val(gcs_info)[1] # <<>> /\ Val(gcs_info)[2] # <<>>)
        /\ ~use_gcs_for_storage_urls => gcs_info = None

\* ------------------------------------------------------------------------
\* Image Fetcher properties
\* ------------------------------------------------------------------------

\* C4: the result of _download_single_url is absent or the full body, of at
\* most max_image_bytes bytes; once the running total exceeds the cap the
\* fetch has returned absent.
C4_ByteCap ==
    /\ fpc = "done" =>
          \/ dl_result = None
          \/ (Len(Val(dl_result)) <= max_image_bytes /\ Val(dl_result) = Body)
    /\ total > max_image_bytes => (fpc = "done" /\ dl_result = None)

\* A body larger than the cap, part of it already buffered, ended absent.
C4_Witness ==
    /\ fpc = "done"
    /\ total > max_image_bytes
    /\ buf # <<>>
    /\ dl_result = None

\* C5: a request is issued only for a URL whose hostname is an allowed host
\* or a subdomain of one; for every other URL (one without a hostname
\* included) no request is made and the result is absent.
C5_RequestOnlyAllowedHost ==
    LET allowed == Hostname(dl_url) # None /\ HostMatches(Val(Hostname(dl_url)))
    IN  /\ requested => allowed
        /\ (fpc = "done" /\ ~allowed) => dl_result = None

\* ------------------------------------------------------------------------
\* Batch fetch properties
\* ------------------------------------------------------------------------

\* C6: a batch fetch returns as many results as it was given inputs, and
\* result i is absent or the bytes of input i, whatever the per-entry
\* outcomes and the order in which the parallel tasks finish.
C6_OrderAndLength ==
    bpc = "done" =>
        /\ Len(batch_ret) = Len(inputs)
        /\ \A i \in 1..Len(batch_ret) :
              batch_ret[i] = None \/ batch_ret[i] = Some(BytesOf(inputs[i]))

\* Two different URLs whose tasks finished in the reverse of the submission
\* order, the first one failing: the second holds its own bytes.
C6_Witness ==
    /\ bop = "urls" /\ bpc = "done"
    /\ Len(inputs) = 2
    /\ inputs[1] # inputs[2]
    /\ completed = <<2, 1>>
    /\ batch_ret = <<None, Some(BytesOf(inputs[2]))>>

\* C7: a failure while handling one entry makes only that entry absent; every
\* entry whose own fetch succeeded holds its bytes in the returned sequence.
C7_FailureIsolation ==
    bpc = "done" =>
        \A i \in 1..Len(inputs) :
            fetched[i] = "ok" => batch_ret[i] = Some(BytesOf(inputs[i]))

\* ------------------------------------------------------------------------
\* Report properties
\* ------------------------------------------------------------------------

Summarised == rpc \notin {"idle", "start"}

\* C1: after normalisation every item is exactly one of conforming and
\* non-conforming, so the question counts add up to the number of items.
C1_CountsPartition ==
    Summarised =>
        /\ \A i \in 1..Len(items) : IsOk(items[i]) # IsNok(items[i])
        /\ perguntas_ok + perguntas_nok = Len(items)

\* C8: no failure in acquiring, decoding, annotating, captioning, re-encoding
\* or placing an image makes generate_pdf raise.
C8_NoEscalation == rpc # "raised"

\* The report of the example: a conforming item whose one image reference
\* failed to fetch, and a non-conforming item without images.
C9_Case ==
    /\ rpc = "done"
    /\ Len(items) = 2
    /\ items[1].conforme = Some(PyInt(1)) /\ Len(items[1].imagens) = 1 /\ fetched_ok[1] = 0
    /\ items[2].conforme = Some(PyInt(0)) /\ items[2].imagens = <<>>

\* C9 as stated: the summary of that report counts questions OK 1 / NOK 1 and
\* photos OK 0 / NOK 0.
C9_FailedFetchNotCounted ==
    C9_Case =>
        /\ perguntas_ok = 1 /\ perguntas_nok = 1
        /\ fotos_ok = 0 /\ fotos_nok = 0

\* C9 as amended: the summary of that report counts questions OK 1 / NOK 1 and
\* photos OK 1 / NOK 0: the photo counts are the numbers of image references
\* of the items, whether or not their fetch succeeds.
C9_CountsReferences ==
    C9_Case =>
        /\ perguntas_ok = 1 /\ perguntas_nok = 1
        /\ fotos_ok = 1 /\ fotos_nok = 0

\* The example report has been produced: its first item's only image was
\* requested and did not arrive, and the summary counted the reference.
C9_Witness == C9_Case /\ fotos_ok = 1 /\ fotos_nok = 0

\* C10: once an item's title has been drawn, and until the item's trailing
\* spacing, the page is the one the item started on and the cursor has not
\* passed the page-break trigger.
C10_NoMidItemBreak ==
    item_page # 0 =>
        /\ page = item_page
        /\ cur_y <= page_break_trigger

\* ------------------------------------------------------------------------
\* Endpoint properties
\* ------------------------------------------------------------------------

\* The request fails validation: no key, no body, or an 'original' that is
\* no object.
ValidationFailure ==
    \/ req_key = None \/ req_key = Some(<<>>)
    \/ req_body.kind \in {"none", "null", "empty_object", "empty_array"}
    \/ req_body.kind = "object" /\ req_body.original \in {"list", "str"}

\* C11: the response is 400 exactly for a validation failure, and generation
\* then does not proceed; every failure raised during assembly, drawing or
\* serialization gives 500; document bytes are returned only when
\* generate_pdf has completed.
C11_ErrorMapping ==
    epc = "responded" =>
        /\ (status = 400) <=> ValidationFailure
        /\ ValidationFailure => ~generate_done
        /\ raised_in = "generation" => status = 500
        /\ pdf_returned => generate_done

\* ------------------------------------------------------------------------
\* Normalisation properties
\* ------------------------------------------------------------------------

\* C12: the normalisation pass keeps the number and order of the items and
\* every field of every item but 'conforme'; it keeps a 'conforme' that is
\* present, leaves it missing when 'situation' is missing too, and otherwise
\* sets it to to_conforme of 'situation'.
C12_NormalisationFrame ==
    [][ (rpc = "start" /\ rpc' = "header") =>
            /\ Len(items') = Len(items)
            /\ \A i \in 1..Len(items) :
                  /\ [items'[i] EXCEPT !.conforme = items[i].conforme] = items[i]
                  /\ items[i].conforme # None => items'[i].conforme = items[i].conforme
                  /\ (items[i].conforme = None /\ items[i].situation = None)
                        => items'[i].conforme = None
                  /\ (items[i].conforme = None /\ items[i].situation # None)
                        => items'[i].conforme = Some(to_conforme(Val(items[i].situation)))
      ]_vars

\* The pass has run over an item with an explicit 'conforme' of 1 and a
\* 'situation' that maps to 0, next to an item whose 'conforme' it derived.
C12_Witness ==
    /\ Summarised
    /\ Len(items) = 2
    /\ items[1].conforme = Some(PyInt(1)) /\ items[1].situation = Some(PyStr(<<"nok">>))
    /\ items[2].conforme = Some(PyInt(1)) /\ items[2].situation = Some(PyStr(<<" ", "OK", " ">>))

\* ------------------------------------------------------------------------
\* Tag badge properties
\* ------------------------------------------------------------------------

RECURSIVE SumWidths(_)
SumWidths(bs) == IF bs = <<>> THEN 0 ELSE Head(bs).w + SumWidths(Tail(bs))

\* C13: badges are drawn in tag order; a badge whose right end (current x +
\* label width + padding) would pass the right margin is drawn at the left
\* margin one badge height lower, any other at the cursor; so every badge not
\* at the left margin ends at or before the right margin, every labelled tag
\* gets its badge, and a list whose badges together are wider than the page
\* has a badge at the left margin on a lower row.
C13_BadgeRows ==
    /\ \A k \in 1..Len(badges) :
          LET b == badges[k]
              over == b.from_x + b.w > page_w - r_margin
          IN  /\ k > 1 => badges[k - 1].tag < b.tag
              /\ b.tag <= tag_i /\ tag_list[b.tag] # 0
              /\ over => (b.x = l_margin /\ b.y = b.from_y + badge_h)
              /\ ~over => (b.x = b.from_x /\ b.y = b.from_y)
              /\ b.x # l_margin => b.x + b.w <= page_w - r_margin
    /\ tpc = "done" =>
          /\ Len(badges) = Cardinality({i \in 1..Len(tag_list) : tag_list[i] # 0})
          /\ SumWidths(badges) > page_w =>
                \E k \in 1..Len(badges) :
                    badges[k].x = l_margin /\ badges[k].y >= tag_start[2] + badge_h

\* A list whose badges together are wider than the page has been drawn: one
\* badge stayed on the status row and a later one opened a row.
C13_Witness ==
    /\ tpc = "done"
    /\ SumWidths(badges) > page_w
    /\ \E k \in 1..Len(badges) : badges[k].x = badges[k].from_x /\ badges[k].y = tag_start[2]
    /\ \E k \in 1..Len(badges) : badges[k].x = l_margin /\ badges[k].x # badges[k].from_x

\* The cursor the loop leaves is the one the report's status line computes.
TagLoopAgrees ==
    tpc = "done" =>
        <<tag_x, tag_y, tag_page>> = TagLoop(tag_list, tag_start[1], tag_start[2], 1)

\* ------------------------------------------------------------------------
\* Line-count properties
\* ------------------------------------------------------------------------

\* The lines a greedy word wrap makes of the words of one line: a word joins
\* the open line when it fits after a space, otherwise it opens a line; a
\* word wider than the width has a line to itself, and the word after it
\* opens a line.  cur is the width of the open line, 0 when none is open.
RECURSIVE GreedyWords(_, _, _)
GreedyWords(words, cur, w) ==
    IF words = <<>> THEN 0
    ELSE LET word == Head(words)
         IN  IF word > w THEN 1 + GreedyWords(Tail(words), 0, w)
             ELSE IF cur > 0 /\ cur + SpaceW + word <= w
             THEN GreedyWords(Tail(words), cur + SpaceW + word, w)
             ELSE 1 + GreedyWords(Tail(words), word, w)

\* The lines of a text: each line of the text starts a line, an empty line
\* is one line, and so is an empty text.
RECURSIVE GreedyLines(_, _)
GreedyLines(lines, w) ==
    IF lines = <<>> THEN 0
    ELSE (IF Head(lines) = <<>> THEN 1 ELSE GreedyWords(Head(lines), 0, w))
         + GreedyLines(Tail(lines), w)

GreedyCount(t, w) == IF t = <<>> THEN 1 ELSE GreedyLines(t, w)

\* C14: the count _get_text_line_count returns is the number of lines of a
\* greedy word wrap of the text at the width.
C14_MatchesGreedyWrap ==
    wpc = "done" => total_lines = GreedyCount(text, width)

\* A word wider than the width is followed by another word on its line.
WideWordFollowed ==
    \E i \in 1..Len(text) : \E k \in 1..Len(text[i]) :
        text[i][k] > width /\ k < Len(text[i])

\* The same for texts in which every word wider than the width ends its line.
LineCountWithoutFollowedWideWord ==
    (wpc = "done" /\ ~WideWordFollowed) => total_lines = GreedyCount(text, width)

\* ------------------------------------------------------------------------
\* Block-height properties
\* ------------------------------------------------------------------------

\* if pdf.get_y() + block_height > pdf.page_break_trigger
BreakNeeded(y, h) == y + h > page_break_trigger

\* C15: one more image, or text appended to the label or to the problem text,
\* never lowers the predicted block height, and at no cursor position turns
\* "page break needed" into "not needed".
C15_MonotonicBlockHeight ==
    ppc = "done" =>
        /\ block_height_more >= block_height
        /\ \A y \in 0..page_h : BreakNeeded(y, block_height) => BreakNeeded(y, block_height_more)

\* The fourth image of an item opened a second row in the prediction.
C15_Witness ==
    /\ ppc = "done"
    /\ more = <<"image">> /\ image_count = 3
    /\ block_height_more = block_height + img_height + img_margin

\* Letters appended to a last word that had wrapped made it wider than the page.
C15_WitnessText ==
    /\ ppc = "done"
    /\ more = <<"problem", [grow |-> 150, newline |-> FALSE, words |-> <<>>]>>
    /\ problem_words = <<100, 100>>
    /\ block_height_more = block_height

\* ------------------------------------------------------------------------
\* Image grid properties
\* ------------------------------------------------------------------------

\* The height the placement loop takes for a caption: a gap of 1 and 4 per
\* line counted by _get_text_line_count, with the font still at size 10.
CaptionHeight(cap) ==
    IF cap = <<>> THEN 0 ELSE 1 + 4 * GetTextLineCount(cap, img_width, 10)

\* The height of the caption as drawn: a gap of 1 and 4 per line of the
\* multi_cell, at font size 8.
DrawnCaptionHeight(cap) ==
    IF cap = <<>> THEN 0 ELSE 1 + 4 * MultiCellLines(cap, img_width, 8)

\* The placed images on the row of the k-th, and those of them placed before.
RowOf(k) == {j \in 1..Len(grid) : grid[j].y = grid[k].y}

BeforeInRow(k) == {j \in RowOf(k) : j < k}

\* The largest (image height + caption height) of the cells on the row of
\* the k-th placed image, by the heights of the captions.
RowHeight(k, Height(_)) ==
    LET hs == {img_height + Height(processed[grid[j].img]) : j \in RowOf(k)}
    IN  CHOOSE h \in hs : \A g \in hs : g <= h

\* Order, rows of at most 3 from the left edge, a failed placement taking no
\* column, and the top of each new row by the caption heights given.
GridPlacement(Height(_)) ==
    /\ Len(grid) <= place_i
    /\ \A k \in 1..Len(grid) :
          /\ k > 1 => grid[k - 1].img < grid[k].img
          /\ grid[k].img <= place_i
          /\ Cardinality(RowOf(k)) <= 3
          /\ grid[k].x = l_margin + Cardinality(BeforeInRow(k)) * (img_width + img_margin)
          /\ (k > 1 /\ grid[k].y # grid[k - 1].y) =>
                /\ Cardinality(RowOf(k - 1)) = 3
                /\ grid[k].x = l_margin
                /\ grid[k].y = grid[k - 1].y + RowHeight(k - 1, Height) + img_margin
          /\ (k > 1 /\ grid[k].y = grid[k - 1].y) => Cardinality(BeforeInRow(k)) < 3

\* C16: placed images keep the input order; a row holds at most 3 of them,
\* side by side from the grid's left edge; the image after a full row is at
\* the left edge, on a row whose top is the top of the row before plus the
\* largest (image height + caption height) of that row plus the image
\* margin; an image whose placement fails takes no column.
C16_GridPlacement == GridPlacement(DrawnCaptionHeight)

\* The same with the caption heights the loop computes.
GridPlacementAsComputed ==
    /\ GridPlacement(CaptionHeight)
    /\ \A k \in 1..Len(grid) :
          grid[k].used = img_height + CaptionHeight(processed[grid[k].img])

\* The grid but for the tops of the rows: any heights.
GridPlacementRowsOnly ==
    \A k \in 1..Len(grid) :
        /\ k > 1 => grid[k - 1].img < grid[k].img
        /\ Cardinality(RowOf(k)) <= 3
        /\ grid[k].x = l_margin + Cardinality(BeforeInRow(k)) * (img_width + img_margin)
        /\ (k > 1 /\ grid[k].y # grid[k - 1].y) => grid[k].x = l_margin

\* ------------------------------------------------------------------------
\* Image source properties
\* ------------------------------------------------------------------------

\* The calls made so far to one source.
AttemptsOn(source) == {i \in 1..Len(attempts) : attempts[i].source = source}

\* The inline path's object was reported not found.
PathReportedMissing ==
    \E i \in 1..Len(attempts) :
        attempts[i] = Attempt("path", "storage", "exists", "false")

\* The URL has been consulted: control is past "if u:" with a truthy u.
UrlConsulted ==
    \/ spc \in {"url_exists", "url_download", "url_http"}
    \/ AttemptsOn("url") # {}

\* C17: the inline path is tried before the URL; the URL is consulted only
\* when the inline path is absent or its object was reported not found; a
\* URL that _parse_gcs_url classifies as a storage URL is fetched through
\* the storage client and never through the HTTP downloader; no call on a
\* source is made twice, and nothing is fetched after a hit.
C17_SourcePrecedence ==
    /\ \A i, j \in 1..Len(attempts) :
           (attempts[i].source = "url" /\ attempts[j].source = "path") => j < i
    /\ UrlConsulted => (~PyTruthy(img_path) \/ PathReportedMissing)
    /\ (PyTruthy(u) /\ SourceGcsInfo(src_flag, u) # None) =>
           /\ spc # "url_http"
           /\ \A i \in AttemptsOn("url") : attempts[i].via = "storage"
    /\ \A i, j \in 1..Len(attempts) :
           (attempts[i].source = attempts[j].source
              /\ attempts[i].call = attempts[j].call) => i = j
    /\ \A i \in 1..Len(attempts) :
           attempts[i].outcome = "bytes" => (i = Len(attempts) /\ spc = "done")
    /\ (spc = "done" /\ src_result # None) =>
           (attempts # <<>> /\ attempts[Len(attempts)].outcome = "bytes")

\* The inline path was reported not found and the storage URL then hit.
C17_Witness ==
    /\ spc = "done"
    /\ src_result = Some("url bytes")
    /\ attempts = <<Attempt("path", "storage", "exists", "false"),
                    Attempt("url", "storage", "exists", "true"),
                    Attempt("url", "storage", "download", "bytes")>>

\* A hit on the inline path ends the call with the URL never consulted.
C17_WitnessPathHit ==
    /\ spc = "done"
    /\ src_result = Some("path bytes")
    /\ PyTruthy(u)
    /\ AttemptsOn("url") = {}


====
